---------------------------- MODULE Spec2Model ----------------------------
(***************************************************************************)
(* A model of src/src/App.jsx of RUIDAI-REACT: a browser front-end that    *)
(* collects images of worksheet problems, asks a generative model for      *)
(* similar problems, splits the markdown reply in three sections and       *)
(* assembles a print document.                                             *)
(*                                                                         *)
(* The file holds two App components.  variant = 1 is the first (lines     *)
(* 12-887, with cropping, saved sheets and print preview), variant = 2 the *)
(* second (lines 900-1247).                                                *)
(*                                                                         *)
(* Text is a sequence of characters, each character a one-element string.  *)
(* The Japanese characters of the source are written in ASCII, one token   *)
(* per character: mon dai = the two characters of the problem heading,     *)
(* kai tou nakaten kai setsu = the five of the solution heading,           *)
(* kou shi mu ke ga i do = the seven of the instructor-guide heading.      *)
(***************************************************************************)
EXTENDS Integers, Sequences, FiniteSets, TLC

VARIABLES
    variant,            \* which of the two App components runs
    images,             \* useState([])            line 13 / 901
    result,             \* useState("")            line 14 / 902
    loading,            \* useState(false)         line 15 / 903
    apiKey,             \* line 16 / 904
    model,              \* line 17 / 905
    isSettingsOpen,     \* line 18 / 906
    isCameraOpen,       \* line 19 / 907
    questionCount,      \* line 20 / 908
    customInstructions, \* line 21 / 909
    studentName,        \* line 22 / 910
    instructorName,     \* line 23 / 911
    sheetTitle,         \* line 26
    assignDate,         \* line 27
    dueDate,            \* line 28
    savedSheets,        \* line 31
    showSavedListModal, \* line 32
    tempImage,          \* line 35
    showCropModal,      \* line 36
    completedCrop,      \* line 38
    mediaStream,        \* line 43 / 916
    longPressTimer,     \* useRef(null), line 223
    localStorage,       \* the browser's key-value store
    liveStreams,        \* camera streams acquired and not yet stopped
    nextStream,         \* the next stream getUserMedia hands out
    pendingCamera,      \* startCamera calls awaiting getUserMedia
    pendingClipboard,   \* pasteFromClipboard calls awaiting clipboard.read
    pendingReaders,     \* FileReader loads in flight
    timers,             \* setTimeout timers set and not yet fired or cleared
    nextTimer,          \* the id the next setTimeout returns
    requests,           \* AI requests in flight
    sent,               \* the number of AI requests sent so far
    now,                \* Date.now()
    sections,           \* the three section contents of the last preview
    printDoc,           \* the print window the last step wrote to or acted in
    alert,              \* the alert the last step showed ("" for none)
    lastOp              \* the handler the last step ran, with its arguments

appVars == <<images, result, loading, apiKey, model, isSettingsOpen,
             isCameraOpen, questionCount, customInstructions, studentName,
             instructorName, sheetTitle, assignDate, dueDate, savedSheets,
             showSavedListModal, tempImage, showCropModal, completedCrop,
             mediaStream>>

envVars == <<longPressTimer, localStorage, liveStreams, nextStream,
             pendingCamera, pendingClipboard, pendingReaders, timers, nextTimer,
             requests, sent, now>>

outVars == <<sections, printDoc, alert, lastOp>>

vars == <<variant, appVars, envVars, outVars>>

----------------------------------------------------------------------------
(* Bounds of the model.                                                    *)

MaxLines == 4
MaxImages == 3
MaxStreams == 2
MaxPending == 2
MaxReaders == 2
MaxTimers == 2
MaxSheets == 2
MaxTime == 3
MaxSent == 2

----------------------------------------------------------------------------
(* Text.                                                                   *)

Null == "null"

EmptyText == <<>>

Min(S) == CHOOSE x \in S : \A y \in S : x <= y

Max(S) == CHOOSE x \in S : \A y \in S : x >= y

\* The three headings the regular expressions of lines 382-384 look for.
HeadingProblem == <<"#", "#", " ", "mon", "dai">>

HeadingSolution == <<"#", "#", " ", "kai", "tou", "nakaten", "kai", "setsu">>

HeadingInstructor == <<"#", "#", " ", "kou", "shi", "mu", "ke", "ga", "i", "do">>

\* The two alternatives of the lookahead (?=---|\n## |$), line 382.
RuleMarker == <<"-", "-", "-">>

NextHeadingMarker == <<"\n", "#", "#", " ">>

\* What String.prototype.trim removes.
WhiteSpace == {" ", "\n", "\t", "\r"}

\* pat matches s at position i (1-based).
MatchesAt(s, pat, i) ==
    /\ i >= 1
    /\ i + Len(pat) - 1 <= Len(s)
    /\ \A k \in 1..Len(pat) : s[i + k - 1] = pat[k]

\* The leftmost position of pat in s, 0 when there is none: where a regular
\* expression that starts with the literal pat first tries to match.
IndexOf(s, pat) ==
    LET hits == {i \in 1..Len(s) : MatchesAt(s, pat, i)}
    IN  IF hits = {} THEN 0 ELSE Min(hits)

\* The lookahead (?=---|\n## |$) at position e; $ has no m flag and is the
\* end of the text.
LookaheadMutNoRule(s, e) ==
    \/ MatchesAt(s, NextHeadingMarker, e)
    \/ e = Len(s) + 1

Lookahead(s, e) ==
    \/ MatchesAt(s, RuleMarker, e)
    \/ MatchesAt(s, NextHeadingMarker, e)
    \/ e = Len(s) + 1

\* String.prototype.trim.
TrimMutLeading(s) ==
    LET keep == {i \in 1..Len(s) : s[i] \notin WhiteSpace}
    IN  IF keep = {} THEN EmptyText ELSE SubSeq(s, 1, Max(keep))

Trim(s) ==
    LET keep == {i \in 1..Len(s) : s[i] \notin WhiteSpace}
    IN  IF keep = {} THEN EmptyText ELSE SubSeq(s, Min(keep), Max(keep))

\* result.match(/<heading>([\s\S]*?)(?=---|\n## |$)/): <<>> for null, else
\* <<capture group 1>>.  The lazy group stops at the first position where the
\* lookahead holds.
MatchLazy(s, heading) ==
    LET p == IndexOf(s, heading)
        from == p + Len(heading)
        e == Min({f \in from..(Len(s) + 1) : Lookahead(s, f)})
    IN  IF p = 0 THEN <<>> ELSE <<SubSeq(s, from, e - 1)>>

\* result.match(/<heading>([\s\S]*?)$/), line 384.
MatchToEnd(s, heading) ==
    LET p == IndexOf(s, heading)
    IN  IF p = 0 THEN <<>> ELSE <<SubSeq(s, p + Len(heading), Len(s))>>

\* match ? match[1].trim() : '', lines 386-388.
ContentOf(match) == IF match = <<>> THEN EmptyText ELSE Trim(match[1])

problemContent(text) == ContentOf(MatchLazy(text, HeadingProblem))

solutionContent(text) == ContentOf(MatchLazy(text, HeadingSolution))

instructorContent(text) == ContentOf(MatchToEnd(text, HeadingInstructor))

----------------------------------------------------------------------------
(* The print path: markdownToHtml and the assembly of the document.        *)

\* Position i of s is a space of a run of spaces that ends a line: what
\* / +$/gm matches (with the m flag $ also stands before a line terminator).
TrailingSpace(s, i) ==
    /\ s[i] = " "
    /\ \E j \in (i + 1)..(Len(s) + 1) :
          /\ (j = Len(s) + 1 \/ s[j] \in {"\n", "\r"})
          /\ \A k \in i..(j - 1) : s[k] = " "

RECURSIVE DropTrailingSpaces(_, _)
DropTrailingSpaces(s, i) ==
    IF i > Len(s) THEN <<>>
    ELSE (IF TrailingSpace(s, i) THEN <<>> ELSE <<s[i]>>)
         \o DropTrailingSpaces(s, i + 1)

\* The lines of a text: the pieces between its newlines.
RECURSIVE SplitLines(_)
SplitLines(s) ==
    LET nl == {i \in 1..Len(s) : s[i] = "\n"}
    IN  IF nl = {} THEN <<s>>
        ELSE <<SubSeq(s, 1, Min(nl) - 1)>>
             \o SplitLines(SubSeq(s, Min(nl) + 1, Len(s)))

\* Texts joined by newlines.
RECURSIVE JoinLines(_)
JoinLines(ls) ==
    IF ls = <<>> THEN EmptyText
    ELSE IF Len(ls) = 1 THEN ls[1]
    ELSE ls[1] \o <<"\n">> \o JoinLines(Tail(ls))

\* The characters that can start markdown or HTML syntax.
SyntaxChars ==
    {"#", "-", "|", "*", "_", "<", ">", "&", "[", "]", "!", "$", "=", "+", "~",
     ":", ".", ")", "0", "1", "2", "3", "4", "5", "6", "7", "8", "9"}

SpaceOrTab == {" ", "\t"}

\* The line without its leading and trailing spaces and tabs.
StripLine(l) ==
    LET keep == {i \in 1..Len(l) : l[i] \notin SpaceOrTab}
    IN  IF keep = {} THEN EmptyText ELSE SubSeq(l, Min(keep), Max(keep))

IsBlank(l) == StripLine(l) = EmptyText

\* A line indented by four spaces or by a tab: an indented code block when it
\* does not continue a paragraph.
IsIndented(l) ==
    /\ ~IsBlank(l)
    /\ \/ l[1] = "\t"
       \/ Len(l) > 4 /\ \A i \in 1..4 : l[i] = " "

\* Text in which markdown sees paragraphs only.
IsPlainText(md) ==
    /\ \A i \in 1..Len(md) : md[i] \notin SyntaxChars /\ md[i] # "\r"
    /\ \A k \in 1..Len(SplitLines(md)) : ~IsIndented(SplitLines(md)[k])

\* The paragraphs of the lines ls: runs of non-blank lines, each line
\* stripped, the lines of a run joined by newlines.  cur is the run so far.
RECURSIVE ParagraphsOf(_, _)
ParagraphsOf(ls, cur) ==
    IF ls = <<>>
    THEN IF cur = <<>> THEN <<>> ELSE <<JoinLines(cur)>>
    ELSE IF IsBlank(Head(ls))
         THEN (IF cur = <<>> THEN <<>> ELSE <<JoinLines(cur)>>)
              \o ParagraphsOf(Tail(ls), <<>>)
         ELSE ParagraphsOf(Tail(ls), Append(cur, StripLine(Head(ls))))

RenderParagraph(par) == <<"<", "p", ">">> \o par \o <<"<", "/", "p", ">">>

\* Text that is one HTML block: it starts with a tag and has no blank line.
IsHtmlBlock(md) ==
    /\ md # EmptyText
    /\ md[1] = "<"
    /\ \A k \in 1..Len(SplitLines(md)) : ~IsBlank(SplitLines(md)[k])

\* The escaping of text in static markup.
RECURSIVE EscapeHtml(_)
EscapeHtml(t) ==
    IF t = <<>> THEN <<>>
    ELSE (CASE Head(t) = "<" -> <<"&", "l", "t", ";">>
            [] Head(t) = ">" -> <<"&", "g", "t", ";">>
            [] Head(t) = "&" -> <<"&", "a", "m", "p", ";">>
            [] OTHER -> <<Head(t)>>)
         \o EscapeHtml(Tail(t))

\* renderToStaticMarkup(<ReactMarkdown ...>{cleanMd}</ReactMarkdown>), lines
\* 656-660.  The renderer is a library: plain text becomes its paragraphs,
\* each in a p element; an HTML block is not parsed as HTML (no rehype-raw
\* among the plugins of line 657) and comes out as escaped text; the
\* rendering of any other markdown is kept as the rendering of its input.
ReactMarkdownMutIdentity(md) == md

ReactMarkdown(md) ==
    IF IsPlainText(md)
    THEN LET pars == ParagraphsOf(SplitLines(md), <<>>)
         IN  JoinLines([i \in 1..Len(pars) |-> RenderParagraph(pars[i])])
    ELSE IF IsHtmlBlock(md) THEN EscapeHtml(md)
    ELSE <<"ReactMarkdown", md>>

markdownToHtml(md) ==
    IF md = EmptyText THEN EmptyText
    ELSE ReactMarkdown(DropTrailingSpaces(md, 1))

\* The titles of the sections and documents (Japanese in the source).
TitleProblem == "mondai"

TitleSolution == "kaitou-kaisetsu"

TitleInstructor == "koushi-muke-guide"

TitleFull == "ruidai-print"

TitleDefault == "ruidai"

\* new Date(assignDate).toLocaleDateString('ja-JP', ...), line 405.
toLocaleDateString(d) == <<"ja-JP", d>>

renderSection(sectionTitle, content) ==
    [kind |-> "print-section", h2 |-> sectionTitle, body |-> markdownToHtml(content)]

getHeader(title, showScore) ==
    [kind |-> "print-header",
     title |-> title,
     date |-> IF assignDate # "" THEN toLocaleDateString(assignDate) ELSE "",
     student |-> studentName,
     instructor |-> instructorName,
     scoreBox |-> showScore]

PageBreak == [kind |-> "page-break"]

\* The modes of the four print buttons, lines 860-863.
Modes == {"problem", "solution", "full", "instructor"}

\* A mode none of the cases names: the default branch of line 467.
OtherMode == "other"

\* The switch of lines 432-470.
FullContentMutOrder(p, s, g) ==
    << getHeader(TitleFull, TRUE),
       renderSection(TitleSolution, s),
       PageBreak,
       getHeader(TitleFull, FALSE),
       renderSection(TitleProblem, p),
       PageBreak,
       getHeader(TitleFull, FALSE),
       renderSection(TitleInstructor, g) >>

FullContent(p, s, g) ==
    << getHeader(TitleFull, TRUE),
       renderSection(TitleProblem, p),
       PageBreak,
       getHeader(TitleFull, FALSE),
       renderSection(TitleSolution, s),
       PageBreak,
       getHeader(TitleFull, FALSE),
       renderSection(TitleInstructor, g) >>

printContent(mode, p, s, g) ==
    CASE mode = "problem" ->
           << getHeader(TitleProblem, TRUE), renderSection(TitleProblem, p) >>
      [] mode = "solution" ->
           << getHeader(TitleSolution, FALSE), renderSection(TitleSolution, s) >>
      [] mode = "full" -> FullContent(p, s, g)
      [] mode = "instructor" ->
           << getHeader(TitleInstructor, FALSE), renderSection(TitleInstructor, g) >>
      [] OTHER -> << markdownToHtml(result) >>

printTitle(mode) ==
    CASE mode = "problem" -> TitleProblem
      [] mode = "solution" -> TitleSolution
      [] mode = "full" -> TitleFull
      [] mode = "instructor" -> TitleInstructor
      [] OTHER -> TitleDefault

\* The slider of line 611: value="100".
SliderDefault == 100

\* No window: openPrintPreview returned at line 379, or the step was not one
\* of the print window.
NoDoc ==
    [title |-> Null, content |-> <<>>, loaded |-> FALSE, height |-> 0,
     zoom |-> SliderDefault, scaleVal |-> SliderDefault]

\* printHtml, lines 479-645, as written to the new window (lines 647-648):
\* the title, the content, the label "100%" (line 610) and the slider at 100
\* (line 611); the body has no zoom set and is not laid out yet.
printHtml(title, content) ==
    [title |-> title, content |-> content, loaded |-> FALSE, height |-> 0,
     zoom |-> SliderDefault, scaleVal |-> SliderDefault]

NoSections == [problem |-> EmptyText, solution |-> EmptyText, instructor |-> EmptyText]

Op(name, arg) == [op |-> name, arg |-> arg]

\* openPrintPreview(mode), lines 378-649.  It reads result, assignDate and
\* the two names and writes nothing but the new window.
openPrintPreviewMutNoGuard(mode) ==
    /\ variant = 1
    /\ lastOp' = Op("openPrintPreview", mode)
    /\ alert' = ""
    /\ LET p == problemContent(result)
           s == solutionContent(result)
           g == instructorContent(result)
       IN  /\ sections' = [problem |-> p, solution |-> s, instructor |-> g]
           /\ printDoc' = printHtml(printTitle(mode),
                                     printContent(mode, p, s, g))
    /\ UNCHANGED <<variant, appVars, envVars>>

openPrintPreview(mode) ==
    /\ variant = 1
    /\ lastOp' = Op("openPrintPreview", mode)
    /\ alert' = ""
    /\ IF result = EmptyText
       THEN /\ printDoc' = NoDoc
            /\ sections' = NoSections
       ELSE LET p == problemContent(result)
                s == solutionContent(result)
                g == instructorContent(result)
            IN  /\ sections' = [problem |-> p, solution |-> s, instructor |-> g]
                /\ printDoc' = printHtml(printTitle(mode),
                                          printContent(mode, p, s, g))
    /\ UNCHANGED <<variant, appVars, envVars>>

----------------------------------------------------------------------------
(* The values the inputs are drawn from.                                   *)

\* "### mon dai 1": a level-3 heading of the reply format (lines 327, 330).
Level3Heading == <<"#", "#", "#", " ", "mon", "dai", "1">>

PlainLine == <<"A">>

\* The separator row of a markdown table.
TableRule == <<"|", "-", "-", "-", "|">>

Pieces == {HeadingProblem, HeadingSolution, HeadingInstructor, Level3Heading,
           RuleMarker, PlainLine}

\* The example of the specification:
\* "## mon dai\nA\n### mon dai 1\nWhat is 2+2?\n---\n## kai tou ...\n..."
QuestionLine == <<"W", "h", "a", "t", " ", "i", "s", " ", "2", "+", "2", "?">>

ExampleText ==
    JoinLines(<< HeadingProblem, PlainLine, Level3Heading, QuestionLine,
                 RuleMarker, HeadingSolution, <<".", ".", ".">> >>)

\* A reply in the format the prompt asks for (lines 325-363).
FormatText ==
    JoinLines(<< HeadingProblem, EmptyText, Level3Heading, <<"Q">>, EmptyText,
                 RuleMarker, EmptyText, HeadingSolution, EmptyText, <<"S", " ">>,
                 EmptyText, RuleMarker, EmptyText, HeadingInstructor, EmptyText,
                 <<"G">>, EmptyText >>)

\* A reply whose problem section holds a markdown table.
TableText ==
    JoinLines(<< HeadingProblem, <<"|", "x", "|">>, TableRule, <<"|", "1", "|">>,
                 RuleMarker, HeadingSolution, <<"S">>, RuleMarker,
                 HeadingInstructor, <<"G">> >>)

Texts ==
    {JoinLines(ls) : ls \in UNION {[1..n -> Pieces] : n \in 0..MaxLines}}
        \cup {ExampleText, FormatText, TableText}

DefaultModel == "gemini-3-flash-preview"

NoStream == 0

NoTimer == 0

NoImage == <<>>

NoCrop == "none"

Today == "today"

\* localStorage.getItem of a key never set.
NoItem == <<>>

\* The effect of lines 64-69 (925-930): it runs after every render in which
\* one of the four values changed.
SaveSettingsMutSkipsInstructor(store, a, m, s, i) ==
    [store EXCEPT !.ruidai_api_key = <<a>>,
                  !.ruidai_model = <<m>>,
                  !.ruidai_student = <<s>>]

SaveSettings(store, a, m, s, i) ==
    [store EXCEPT !.ruidai_api_key = <<a>>,
                  !.ruidai_model = <<m>>,
                  !.ruidai_student = <<s>>,
                  !.ruidai_instructor = <<i>>]

EmptyStorage ==
    [ruidai_api_key |-> NoItem, ruidai_model |-> NoItem, ruidai_student |-> NoItem,
     ruidai_instructor |-> NoItem, ruidai_saved_sheets |-> NoItem]

\* The state after the component is constructed and its mount effects have
\* run (lines 13-43, 52-69), on an origin whose store holds at most the API
\* key a; n is the id the next timer of setTimeout gets.
InitAt(r, a, n) ==
    /\ images = <<>>
    /\ result = r
    /\ loading = FALSE
    /\ apiKey = a
    /\ model = DefaultModel
    /\ isSettingsOpen = FALSE
    /\ isCameraOpen = FALSE
    /\ questionCount = 3
    /\ customInstructions = ""
    /\ studentName = ""
    /\ instructorName = ""
    /\ sheetTitle = ""
    /\ assignDate = Today
    /\ dueDate = ""
    /\ savedSheets = <<>>
    /\ showSavedListModal = FALSE
    /\ tempImage = NoImage
    /\ showCropModal = FALSE
    /\ completedCrop = NoCrop
    /\ mediaStream = NoStream
    /\ longPressTimer = NoTimer
    /\ localStorage = SaveSettings(EmptyStorage, a, DefaultModel, "", "")
    /\ liveStreams = {}
    /\ nextStream = 1
    /\ pendingCamera = 0
    /\ pendingClipboard = 0
    /\ pendingReaders = <<>>
    /\ timers = {}
    /\ nextTimer = n
    /\ requests = <<>>
    /\ sent = 0
    /\ now = 1
    /\ sections = NoSections
    /\ printDoc = NoDoc
    /\ alert = ""
    /\ lastOp = Op("init", Null)

\* The page before any timer was started.
InitFrom(r, a) == InitAt(r, a, 1)

\* The same on a fresh origin.
InitWith(r) == InitFrom(r, "")

Init ==
    /\ variant \in {1, 2}
    /\ InitWith(EmptyText)

----------------------------------------------------------------------------
(* Camera, cropping and the image list.                                    *)

\* Raster images: <<what was photographed or copied, the crop applied>>.
Frames == {"a", "b"}

Crops == {"c1"}

Image(src) == <<src, NoCrop>>

\* canvas.toDataURL of the cropped region, lines 175-196.
Cropped(img, c) == <<img[1], c>>

AlertUnsupported == "camera not supported"

AlertCameraFailed == "camera failed: err.message"

AlertNoClipboardImage == "no image in clipboard"

AlertClipboardFailed == "clipboard read failed"

\* The model takes in a new image only while the images held and those on
\* their way number less than MaxImages.
Room ==
    Len(images) + Len(pendingReaders) + (IF tempImage # NoImage THEN 1 ELSE 0)
        < MaxImages

\* startCamera up to its await, lines 120-132 (940-952).  The upload area and
\* its button are rendered while the camera is closed (lines 733-759).
startCamera ==
    /\ ~isCameraOpen
    /\ lastOp' = Op("startCamera", Null)
    /\ \/ /\ alert' = AlertUnsupported
          /\ UNCHANGED pendingCamera
       \/ /\ pendingCamera < MaxPending
          /\ alert' = ""
          /\ pendingCamera' = pendingCamera + 1
    /\ sections' = NoSections
    /\ printDoc' = NoDoc
    /\ UNCHANGED <<variant, appVars, longPressTimer, localStorage, liveStreams,
                   nextStream, pendingClipboard, pendingReaders, timers,
                   nextTimer, requests, sent, now>>

\* getUserMedia resolves: lines 133-135 (953-955).
cameraGrantedMutKeepsClosed ==
    /\ pendingCamera > 0
    /\ nextStream <= MaxStreams
    /\ lastOp' = Op("cameraGranted", Null)
    /\ alert' = ""
    /\ pendingCamera' = pendingCamera - 1
    /\ liveStreams' = liveStreams \cup {nextStream}
    /\ nextStream' = nextStream + 1
    /\ mediaStream' = nextStream
    /\ sections' = NoSections
    /\ printDoc' = NoDoc
    /\ UNCHANGED <<variant, images, result, loading, apiKey, model,
                   isSettingsOpen, isCameraOpen, questionCount,
                   customInstructions, studentName, instructorName, sheetTitle,
                   assignDate, dueDate, savedSheets, showSavedListModal,
                   tempImage, showCropModal, completedCrop, longPressTimer,
                   localStorage, pendingClipboard, pendingReaders, timers,
                   nextTimer, requests, sent, now>>

cameraGranted ==
    /\ pendingCamera > 0
    /\ nextStream <= MaxStreams
    /\ lastOp' = Op("cameraGranted", Null)
    /\ alert' = ""
    /\ pendingCamera' = pendingCamera - 1
    /\ liveStreams' = liveStreams \cup {nextStream}
    /\ nextStream' = nextStream + 1
    /\ mediaStream' = nextStream
    /\ isCameraOpen' = TRUE
    /\ sections' = NoSections
    /\ printDoc' = NoDoc
    /\ UNCHANGED <<variant, images, result, loading, apiKey, model,
                   isSettingsOpen, questionCount, customInstructions,
                   studentName, instructorName, sheetTitle, assignDate, dueDate,
                   savedSheets, showSavedListModal, tempImage, showCropModal,
                   completedCrop, longPressTimer, localStorage,
                   pendingClipboard, pendingReaders, timers, nextTimer,
                   requests, sent, now>>

\* getUserMedia rejects: the catch of lines 136-139 (956-959).
cameraDeniedMutOpens ==
    /\ pendingCamera > 0
    /\ lastOp' = Op("cameraDenied", Null)
    /\ alert' = AlertCameraFailed
    /\ pendingCamera' = pendingCamera - 1
    /\ isCameraOpen' = TRUE
    /\ sections' = NoSections
    /\ printDoc' = NoDoc
    /\ UNCHANGED <<variant, images, result, loading, apiKey, model,
                   isSettingsOpen, questionCount, customInstructions,
                   studentName, instructorName, sheetTitle, assignDate, dueDate,
                   savedSheets, showSavedListModal, tempImage, showCropModal,
                   completedCrop, mediaStream, longPressTimer, localStorage,
                   liveStreams, nextStream, pendingClipboard, pendingReaders,
                   timers, nextTimer, requests, sent, now>>

cameraDenied ==
    /\ pendingCamera > 0
    /\ lastOp' = Op("cameraDenied", Null)
    /\ alert' = AlertCameraFailed
    /\ pendingCamera' = pendingCamera - 1
    /\ sections' = NoSections
    /\ printDoc' = NoDoc
    /\ UNCHANGED <<variant, appVars, longPressTimer, localStorage, liveStreams,
                   nextStream, pendingClipboard, pendingReaders, timers,
                   nextTimer, requests, sent, now>>

\* The body of stopCamera, lines 142-149 (962-969): the tracks of the stream
\* the component holds are stopped.
StoppedStreams ==
    IF mediaStream # NoStream THEN liveStreams \ {mediaStream} ELSE liveStreams

stopCamera ==
    /\ isCameraOpen
    /\ lastOp' = Op("stopCamera", Null)
    /\ alert' = ""
    /\ liveStreams' = StoppedStreams
    /\ mediaStream' = NoStream
    /\ isCameraOpen' = FALSE
    /\ sections' = NoSections
    /\ printDoc' = NoDoc
    /\ UNCHANGED <<variant, images, result, loading, apiKey, model,
                   isSettingsOpen, questionCount, customInstructions,
                   studentName, instructorName, sheetTitle, assignDate, dueDate,
                   savedSheets, showSavedListModal, tempImage, showCropModal,
                   completedCrop, longPressTimer, localStorage, nextStream,
                   pendingCamera, pendingClipboard, pendingReaders, timers,
                   nextTimer, requests, sent, now>>

\* captureImage, lines 151-169 (971-987); the video and the canvas exist
\* while the camera container is rendered.
captureImage(frame) ==
    /\ isCameraOpen
    /\ Room
    /\ lastOp' = Op("captureImage", Null)
    /\ alert' = ""
    /\ IF variant = 1
       THEN /\ tempImage' = Image(frame)
            /\ showCropModal' = TRUE
            /\ UNCHANGED images
       ELSE /\ images' = Append(images, Image(frame))
            /\ UNCHANGED <<tempImage, showCropModal>>
    /\ liveStreams' = StoppedStreams
    /\ mediaStream' = NoStream
    /\ isCameraOpen' = FALSE
    /\ sections' = NoSections
    /\ printDoc' = NoDoc
    /\ UNCHANGED <<variant, result, loading, apiKey, model, isSettingsOpen,
                   questionCount, customInstructions, studentName,
                   instructorName, sheetTitle, assignDate, dueDate, savedSheets,
                   showSavedListModal, completedCrop, longPressTimer,
                   localStorage, nextStream, pendingCamera, pendingClipboard,
                   pendingReaders, timers, nextTimer, requests, sent, now>>

\* The crop modal is rendered, line 703.
CropModalShown == variant = 1 /\ showCropModal /\ tempImage # NoImage

\* ReactCrop's onComplete, line 711.
onCropComplete(c) ==
    /\ CropModalShown
    /\ lastOp' = Op("onCropComplete", Null)
    /\ alert' = ""
    /\ completedCrop' = c
    /\ sections' = NoSections
    /\ printDoc' = NoDoc
    /\ UNCHANGED <<variant, images, result, loading, apiKey, model,
                   isSettingsOpen, isCameraOpen, questionCount,
                   customInstructions, studentName, instructorName, sheetTitle,
                   assignDate, dueDate, savedSheets, showSavedListModal,
                   tempImage, showCropModal, mediaStream, envVars>>

\* getCroppedImage, lines 172-197: NoImage stands for null.
getCroppedImage ==
    IF completedCrop = NoCrop THEN NoImage ELSE Cropped(tempImage, completedCrop)

\* confirmCrop, lines 199-210.
confirmCrop ==
    /\ CropModalShown
    /\ lastOp' = Op("confirmCrop", Null)
    /\ alert' = ""
    /\ images' = IF getCroppedImage # NoImage THEN Append(images, getCroppedImage)
                 ELSE IF tempImage # NoImage THEN Append(images, tempImage)
                 ELSE images
    /\ showCropModal' = FALSE
    /\ tempImage' = NoImage
    /\ completedCrop' = NoCrop
    /\ sections' = NoSections
    /\ printDoc' = NoDoc
    /\ UNCHANGED <<variant, result, loading, apiKey, model, isSettingsOpen,
                   isCameraOpen, questionCount, customInstructions, studentName,
                   instructorName, sheetTitle, assignDate, dueDate, savedSheets,
                   showSavedListModal, mediaStream, envVars>>

\* cancelCrop, lines 212-216.
cancelCrop ==
    /\ CropModalShown
    /\ lastOp' = Op("cancelCrop", Null)
    /\ alert' = ""
    /\ showCropModal' = FALSE
    /\ tempImage' = NoImage
    /\ completedCrop' = NoCrop
    /\ sections' = NoSections
    /\ printDoc' = NoDoc
    /\ UNCHANGED <<variant, images, result, loading, apiKey, model,
                   isSettingsOpen, isCameraOpen, questionCount,
                   customInstructions, studentName, instructorName, sheetTitle,
                   assignDate, dueDate, savedSheets, showSavedListModal,
                   mediaStream, envVars>>

\* prev.filter((_, i) => i !== index), lines 219 and 990; index is 0-based.
RECURSIVE FilterFrom(_, _, _)
FilterFrom(prev, index, i) ==
    IF i >= Len(prev) THEN <<>>
    ELSE (IF i # index THEN <<prev[i + 1]>> ELSE <<>>)
         \o FilterFrom(prev, index, i + 1)

FilterMutByValue(prev, index) ==
    SelectSeq(prev, LAMBDA img : img # prev[index + 1])

FilterOutIndex(prev, index) == FilterFrom(prev, index, 0)

\* deleteImage(index), lines 218-220 (989-991): the delete button of image
\* index of the rendered list (lines 766-772).
deleteImage(index) ==
    /\ index \in 0..(Len(images) - 1)
    /\ lastOp' = Op("deleteImage", index)
    /\ alert' = ""
    /\ images' = FilterOutIndex(images, index)
    /\ sections' = NoSections
    /\ printDoc' = NoDoc
    /\ UNCHANGED <<variant, result, loading, apiKey, model, isSettingsOpen,
                   isCameraOpen, questionCount, customInstructions, studentName,
                   instructorName, sheetTitle, assignDate, dueDate, savedSheets,
                   showSavedListModal, tempImage, showCropModal, completedCrop,
                   mediaStream, envVars>>

----------------------------------------------------------------------------
(* Pasting: the paste event, the long press and the clipboard.             *)

Reader(target, data) == [target |-> target, data |-> data]

RECURSIVE ReadersFor(_)
ReadersFor(items) ==
    IF items = <<>> THEN <<>>
    ELSE <<Reader("images", Image(Head(items)))>> \o ReadersFor(Tail(items))

\* The image items a paste event may carry.
PasteItems == UNION {[1..n -> Frames] : n \in 1..MaxReaders}

\* handlePaste, lines 266-280 (995-1009): one FileReader per image item.
handlePaste(items) ==
    /\ Len(images) + Len(pendingReaders) + Len(items)
           + (IF tempImage # NoImage THEN 1 ELSE 0) <= MaxImages
    /\ Len(pendingReaders) + Len(items) <= MaxReaders
    /\ lastOp' = Op("handlePaste", Null)
    /\ alert' = ""
    /\ pendingReaders' = pendingReaders \o ReadersFor(items)
    /\ sections' = NoSections
    /\ printDoc' = NoDoc
    /\ UNCHANGED <<variant, appVars, longPressTimer, localStorage, liveStreams,
                   nextStream, pendingCamera, pendingClipboard, timers,
                   nextTimer, requests, sent, now>>

RemoveAt(seq, j) == SubSeq(seq, 1, j - 1) \o SubSeq(seq, j + 1, Len(seq))

\* reader.onload of reader j: lines 274-276 (1003-1005) for a paste event,
\* lines 234-237 for a clipboard read.
readerLoadedMutStaleClosure(j) ==
    /\ j \in 1..Len(pendingReaders)
    /\ lastOp' = Op("readerLoaded", Null)
    /\ alert' = ""
    /\ pendingReaders' = RemoveAt(pendingReaders, j)
    /\ IF pendingReaders[j].target = "images"
       THEN /\ images' = <<pendingReaders[j].data>>
            /\ UNCHANGED <<tempImage, showCropModal>>
       ELSE /\ tempImage' = pendingReaders[j].data
            /\ showCropModal' = TRUE
            /\ UNCHANGED images
    /\ sections' = NoSections
    /\ printDoc' = NoDoc
    /\ UNCHANGED <<variant, result, loading, apiKey, model, isSettingsOpen,
                   isCameraOpen, questionCount, customInstructions, studentName,
                   instructorName, sheetTitle, assignDate, dueDate, savedSheets,
                   showSavedListModal, completedCrop, mediaStream,
                   longPressTimer, localStorage, liveStreams, nextStream,
                   pendingCamera, pendingClipboard, timers, nextTimer, requests,
                   sent, now>>

readerLoaded(j) ==
    /\ j \in 1..Len(pendingReaders)
    /\ lastOp' = Op("readerLoaded", Null)
    /\ alert' = ""
    /\ pendingReaders' = RemoveAt(pendingReaders, j)
    /\ IF pendingReaders[j].target = "images"
       THEN /\ images' = Append(images, pendingReaders[j].data)
            /\ UNCHANGED <<tempImage, showCropModal>>
       ELSE /\ tempImage' = pendingReaders[j].data
            /\ showCropModal' = TRUE
            /\ UNCHANGED images
    /\ sections' = NoSections
    /\ printDoc' = NoDoc
    /\ UNCHANGED <<variant, result, loading, apiKey, model, isSettingsOpen,
                   isCameraOpen, questionCount, customInstructions, studentName,
                   instructorName, sheetTitle, assignDate, dueDate, savedSheets,
                   showSavedListModal, completedCrop, mediaStream,
                   longPressTimer, localStorage, liveStreams, nextStream,
                   pendingCamera, pendingClipboard, timers, nextTimer, requests,
                   sent, now>>

\* handleTouchStart, lines 251-255: touchstart or mousedown on the upload
\* area (lines 746, 748), rendered while the camera is closed.
handleTouchStart ==
    /\ variant = 1
    /\ ~isCameraOpen
    /\ nextTimer <= MaxTimers
    /\ lastOp' = Op("handleTouchStart", Null)
    /\ alert' = ""
    /\ timers' = timers \cup {nextTimer}
    /\ longPressTimer' = nextTimer
    /\ nextTimer' = nextTimer + 1
    /\ sections' = NoSections
    /\ printDoc' = NoDoc
    /\ UNCHANGED <<variant, appVars, localStorage, liveStreams, nextStream,
                   pendingCamera, pendingClipboard, pendingReaders, requests,
                   sent, now>>

\* handleTouchEnd, lines 257-262: touchend, mouseup or mouseleave.
handleTouchEnd ==
    /\ variant = 1
    /\ ~isCameraOpen
    /\ lastOp' = Op("handleTouchEnd", Null)
    /\ alert' = ""
    /\ IF longPressTimer # NoTimer
       THEN /\ timers' = timers \ {longPressTimer}
            /\ longPressTimer' = NoTimer
       ELSE UNCHANGED <<timers, longPressTimer>>
    /\ sections' = NoSections
    /\ printDoc' = NoDoc
    /\ UNCHANGED <<variant, appVars, localStorage, liveStreams, nextStream,
                   pendingCamera, pendingClipboard, pendingReaders, nextTimer,
                   requests, sent, now>>

\* The timer of line 252 fires after 800 ms and calls pasteFromClipboard,
\* which awaits navigator.clipboard.read() (line 228).
longPressFired(t) ==
    /\ t \in timers
    /\ lastOp' = Op("longPressFired", Null)
    /\ alert' = ""
    /\ timers' = timers \ {t}
    /\ pendingClipboard' = pendingClipboard + 1
    /\ sections' = NoSections
    /\ printDoc' = NoDoc
    /\ UNCHANGED <<variant, appVars, longPressTimer, localStorage, liveStreams,
                   nextStream, pendingCamera, pendingReaders, nextTimer,
                   requests, sent, now>>

\* clipboard.read() resolves with an image item: lines 229-239.
clipboardImage(frame) ==
    /\ pendingClipboard > 0
    /\ Len(pendingReaders) < MaxReaders
    /\ lastOp' = Op("clipboardImage", Null)
    /\ alert' = ""
    /\ pendingClipboard' = pendingClipboard - 1
    /\ pendingReaders' = Append(pendingReaders, Reader("crop", Image(frame)))
    /\ sections' = NoSections
    /\ printDoc' = NoDoc
    /\ UNCHANGED <<variant, appVars, longPressTimer, localStorage, liveStreams,
                   nextStream, pendingCamera, timers, nextTimer, requests, sent,
                   now>>

\* clipboard.read() resolves without an image item: line 243.
clipboardNoImage ==
    /\ pendingClipboard > 0
    /\ lastOp' = Op("clipboardNoImage", Null)
    /\ alert' = AlertNoClipboardImage
    /\ pendingClipboard' = pendingClipboard - 1
    /\ sections' = NoSections
    /\ printDoc' = NoDoc
    /\ UNCHANGED <<variant, appVars, longPressTimer, localStorage, liveStreams,
                   nextStream, pendingCamera, pendingReaders, timers, nextTimer,
                   requests, sent, now>>

\* clipboard.read() or getType rejects: the catch of lines 244-247.
clipboardDenied ==
    /\ pendingClipboard > 0
    /\ lastOp' = Op("clipboardDenied", Null)
    /\ alert' = AlertClipboardFailed
    /\ pendingClipboard' = pendingClipboard - 1
    /\ sections' = NoSections
    /\ printDoc' = NoDoc
    /\ UNCHANGED <<variant, appVars, longPressTimer, localStorage, liveStreams,
                   nextStream, pendingCamera, pendingReaders, timers, nextTimer,
                   requests, sent, now>>

\* The image list: images arrive by paste events and leave by deleteImage.
NextImages ==
    \/ \E items \in PasteItems : handlePaste(items)
    \/ \E j \in 1..MaxReaders : readerLoaded(j)
    \/ \E index \in 0..(MaxImages - 1) : deleteImage(index)

SpecImages == Init /\ [][NextImages]_vars

\* Paste events among the other writers of the image list: the delete
\* buttons and the crop modal (reached by a long press and a clipboard read).
NextPaste ==
    \/ \E items \in PasteItems : handlePaste(items)
    \/ \E j \in 1..MaxReaders : readerLoaded(j)
    \/ \E index \in 0..(MaxImages - 1) : deleteImage(index)
    \/ handleTouchStart
    \/ \E t \in 1..MaxTimers : longPressFired(t)
    \/ \E frame \in Frames : clipboardImage(frame)
    \/ \E c \in Crops : onCropComplete(c)
    \/ confirmCrop

SpecPaste == Init /\ [][NextPaste]_vars

\* The camera, the long press on the upload area, the clipboard and the
\* crop modal.
NextCamera ==
    \/ startCamera
    \/ cameraGranted
    \/ cameraDenied
    \/ stopCamera
    \/ \E frame \in Frames : captureImage(frame)
    \/ \E c \in Crops : onCropComplete(c)
    \/ confirmCrop
    \/ cancelCrop
    \/ handleTouchStart
    \/ handleTouchEnd
    \/ \E t \in 1..MaxTimers : longPressFired(t)
    \/ \E frame \in Frames : clipboardImage(frame)
    \/ clipboardNoImage
    \/ clipboardDenied
    \/ \E j \in 1..MaxReaders : readerLoaded(j)

\* The page after the upload area was pressed and released MaxTimers - 1
\* times, each release within 800 ms: the timers of those presses were
\* cleared and nothing else changed.
InitCamera ==
    /\ variant \in {1, 2}
    /\ InitAt(EmptyText, "", MaxTimers)

SpecCamera == InitCamera /\ [][NextCamera]_vars

\* The long press on the upload area of the first component and the
\* clipboard read it starts, up to the crop modal.
InitPress ==
    /\ variant = 1
    /\ InitWith(EmptyText)

NextPress ==
    \/ handleTouchStart
    \/ handleTouchEnd
    \/ \E t \in 1..MaxTimers : longPressFired(t)
    \/ \E frame \in Frames : clipboardImage(frame)
    \/ clipboardNoImage
    \/ clipboardDenied
    \/ \E j \in 1..MaxReaders : readerLoaded(j)
    \/ confirmCrop
    \/ cancelCrop

SpecPress == InitPress /\ [][NextPress]_vars

----------------------------------------------------------------------------
(* Settings and the AI request.                                            *)

ApiKeys == {"", "key"}

Names == {"", "Taro"}

\* Replies of the AI provider.
Responses == {PlainLine, FormatText}

\* error.message of a failed request.
ErrorMessages == {"quota", "network"}

AlertNoApiKey == "enter the API key"

AlertGenerateFailed(msg) ==
    IF msg = "quota" THEN "generate failed: quota" ELSE "generate failed: network"

\* The settings button, line 668 (1092), and the close button and overlay of
\* the settings modal, lines 673 and 697 (1097, 1121).
setIsSettingsOpen(open) ==
    /\ isSettingsOpen # open
    /\ lastOp' = Op("setIsSettingsOpen", Null)
    /\ alert' = ""
    /\ isSettingsOpen' = open
    /\ sections' = NoSections
    /\ printDoc' = NoDoc
    /\ UNCHANGED <<variant, images, result, loading, apiKey, model,
                   isCameraOpen, questionCount, customInstructions, studentName,
                   instructorName, sheetTitle, assignDate, dueDate, savedSheets,
                   showSavedListModal, tempImage, showCropModal, completedCrop,
                   mediaStream, envVars>>

\* The API key input of the settings modal, line 681 (1105), followed by the
\* settings effect of lines 64-69 (925-930).
setApiKey(v) ==
    /\ isSettingsOpen
    /\ v # apiKey
    /\ lastOp' = Op("setApiKey", Null)
    /\ alert' = ""
    /\ apiKey' = v
    /\ localStorage' = SaveSettings(localStorage, v, model, studentName, instructorName)
    /\ sections' = NoSections
    /\ printDoc' = NoDoc
    /\ UNCHANGED <<variant, images, result, loading, model, isSettingsOpen,
                   isCameraOpen, questionCount, customInstructions, studentName,
                   instructorName, sheetTitle, assignDate, dueDate, savedSheets,
                   showSavedListModal, tempImage, showCropModal, completedCrop,
                   mediaStream, longPressTimer, liveStreams, nextStream,
                   pendingCamera, pendingClipboard, pendingReaders, timers,
                   nextTimer, requests, sent, now>>

\* The minus button of the stepper, line 793 (first component).
stepperMinus ==
    /\ variant = 1
    /\ lastOp' = Op("stepperMinus", Null)
    /\ alert' = ""
    /\ questionCount' = Max({1, questionCount - 1})
    /\ sections' = NoSections
    /\ printDoc' = NoDoc
    /\ UNCHANGED <<variant, images, result, loading, apiKey, model,
                   isSettingsOpen, isCameraOpen, customInstructions, studentName, instructorName,
                   sheetTitle, assignDate, dueDate, savedSheets,
                   showSavedListModal, tempImage, showCropModal, completedCrop,
                   mediaStream, envVars>>

\* The plus button of the stepper, line 799 (first component).
stepperPlus ==
    /\ variant = 1
    /\ lastOp' = Op("stepperPlus", Null)
    /\ alert' = ""
    /\ questionCount' = Min({10, questionCount + 1})
    /\ sections' = NoSections
    /\ printDoc' = NoDoc
    /\ UNCHANGED <<variant, images, result, loading, apiKey, model,
                   isSettingsOpen, isCameraOpen, customInstructions, studentName, instructorName,
                   sheetTitle, assignDate, dueDate, savedSheets,
                   showSavedListModal, tempImage, showCropModal, completedCrop,
                   mediaStream, envVars>>

Digits == <<"0", "1", "2", "3", "4", "5", "6", "7", "8", "9">>

IsDigit(c) == \E d \in 1..10 : Digits[d] = c

DigitValue(c) == (CHOOSE d \in 1..10 : Digits[d] = c) - 1

\* The value of the leading digits of t, acc being the value so far.
RECURSIVE LeadingDigits(_, _)
LeadingDigits(t, acc) ==
    IF t = <<>> \/ ~IsDigit(Head(t)) THEN acc
    ELSE LeadingDigits(Tail(t), 10 * acc + DigitValue(Head(t)))

\* parseInt(t): the number of an optional sign and the digits that follow;
\* NaN when no digit follows.
NaN == [nan |-> TRUE, value |-> 0]

parseInt(t) ==
    LET neg == t # <<>> /\ Head(t) = "-"
        body == IF neg THEN Tail(t) ELSE t
    IN  IF body = <<>> \/ ~IsDigit(Head(body)) THEN NaN
        ELSE [nan |-> FALSE,
              value |-> IF neg THEN 0 - LeadingDigits(body, 0)
                        ELSE LeadingDigits(body, 0)]

\* What may stand in the number input of line 1169 after a key stroke.
TypedCounts == {<<>>, <<"0">>, <<"7">>, <<"1", "1">>, <<"-", "1">>, <<"2", ".", "5">>}

\* parseInt(e.target.value) || 3, line 1174.
ParsedOrDefault(t) ==
    IF parseInt(t).nan \/ parseInt(t).value = 0 THEN 3 ELSE parseInt(t).value

\* The number input of the second component, lines 1169-1175.
questionCountInput(t) ==
    /\ variant = 2
    /\ lastOp' = Op("questionCountInput", Null)
    /\ alert' = ""
    /\ questionCount' = ParsedOrDefault(t)
    /\ sections' = NoSections
    /\ printDoc' = NoDoc
    /\ UNCHANGED <<variant, images, result, loading, apiKey, model,
                   isSettingsOpen, isCameraOpen, customInstructions, studentName, instructorName,
                   sheetTitle, assignDate, dueDate, savedSheets,
                   showSavedListModal, tempImage, showCropModal, completedCrop,
                   mediaStream, envVars>>

\* Nothing and the value of the first preset (line 46).
CustomTexts == {"", "harder"}

\* The preset chips and the textarea, lines 830 and 838 (1200, 1208).
setCustomInstructions(v) ==
    /\ v # customInstructions
    /\ lastOp' = Op("setCustomInstructions", Null)
    /\ alert' = ""
    /\ customInstructions' = v
    /\ sections' = NoSections
    /\ printDoc' = NoDoc
    /\ UNCHANGED <<variant, images, result, loading, apiKey, model,
                   isSettingsOpen, isCameraOpen, questionCount, studentName, instructorName,
                   sheetTitle, assignDate, dueDate, savedSheets,
                   showSavedListModal, tempImage, showCropModal, completedCrop,
                   mediaStream, envVars>>

\* images.map(img => ({inlineData: {data: img.split(',')[1], ...}})),
\* lines 299-304 (1028-1033).
RECURSIVE imagesParts(_)
imagesParts(imgs) ==
    IF imgs = <<>> THEN <<>>
    ELSE <<[data |-> Head(imgs), mimeType |-> "image/png"]>> \o imagesParts(Tail(imgs))

\* The template of lines 306-364 (1035-1074): its text is fixed but for the
\* two interpolations.
promptMutDropsExtra ==
    [template |-> variant, questionCount |-> questionCount, extra |-> <<>>]

prompt ==
    [template |-> variant,
     questionCount |-> questionCount,
     extra |-> IF customInstructions # "" THEN <<"extra", customInstructions>> ELSE <<>>]

Request ==
    [apiKey |-> apiKey, model |-> model, prompt |-> prompt, images |-> imagesParts(images)]

\* handleGenerate up to its await, lines 286-366 (1015-1076).  The button is
\* disabled while loading (lines 847, 1217).
handleGenerateMutNoKeyCheck ==
    /\ ~loading
    /\ lastOp' = Op("handleGenerate", Null)
    /\ sections' = NoSections
    /\ printDoc' = NoDoc
    /\ \/ /\ Len(images) = 0
          /\ alert' = ""
          /\ UNCHANGED <<isSettingsOpen, loading, requests, sent>>
       \/ /\ Len(images) # 0
          /\ sent < MaxSent
          /\ alert' = ""
          /\ loading' = TRUE
          /\ requests' = Append(requests, Request)
          /\ sent' = sent + 1
          /\ UNCHANGED isSettingsOpen
    /\ UNCHANGED <<variant, images, result, apiKey, model, isCameraOpen,
                   questionCount, customInstructions, studentName,
                   instructorName, sheetTitle, assignDate, dueDate, savedSheets,
                   showSavedListModal, tempImage, showCropModal, completedCrop,
                   mediaStream, longPressTimer, localStorage, liveStreams,
                   nextStream, pendingCamera, pendingClipboard, pendingReaders,
                   timers, nextTimer, now>>

handleGenerateMutNotDisabled ==
    /\ lastOp' = Op("handleGenerate", Null)
    /\ sections' = NoSections
    /\ printDoc' = NoDoc
    /\ \/ /\ Len(images) = 0
          /\ alert' = ""
          /\ UNCHANGED <<isSettingsOpen, loading, requests, sent>>
       \/ /\ Len(images) # 0
          /\ apiKey = ""
          /\ alert' = AlertNoApiKey
          /\ isSettingsOpen' = TRUE
          /\ UNCHANGED <<loading, requests, sent>>
       \/ /\ Len(images) # 0
          /\ apiKey # ""
          /\ sent < MaxSent
          /\ alert' = ""
          /\ loading' = TRUE
          /\ requests' = Append(requests, Request)
          /\ sent' = sent + 1
          /\ UNCHANGED isSettingsOpen
    /\ UNCHANGED <<variant, images, result, apiKey, model, isCameraOpen,
                   questionCount, customInstructions, studentName,
                   instructorName, sheetTitle, assignDate, dueDate, savedSheets,
                   showSavedListModal, tempImage, showCropModal, completedCrop,
                   mediaStream, longPressTimer, localStorage, liveStreams,
                   nextStream, pendingCamera, pendingClipboard, pendingReaders,
                   timers, nextTimer, now>>

handleGenerate ==
    /\ ~loading
    /\ lastOp' = Op("handleGenerate", Null)
    /\ sections' = NoSections
    /\ printDoc' = NoDoc
    /\ \/ /\ Len(images) = 0
          /\ alert' = ""
          /\ UNCHANGED <<isSettingsOpen, loading, requests, sent>>
       \/ /\ Len(images) # 0
          /\ apiKey = ""
          /\ alert' = AlertNoApiKey
          /\ isSettingsOpen' = TRUE
          /\ UNCHANGED <<loading, requests, sent>>
       \/ /\ Len(images) # 0
          /\ apiKey # ""
          /\ sent < MaxSent
          /\ alert' = ""
          /\ loading' = TRUE
          /\ requests' = Append(requests, Request)
          /\ sent' = sent + 1
          /\ UNCHANGED isSettingsOpen
    /\ UNCHANGED <<variant, images, result, apiKey, model, isCameraOpen,
                   questionCount, customInstructions, studentName,
                   instructorName, sheetTitle, assignDate, dueDate, savedSheets,
                   showSavedListModal, tempImage, showCropModal, completedCrop,
                   mediaStream, longPressTimer, localStorage, liveStreams,
                   nextStream, pendingCamera, pendingClipboard, pendingReaders,
                   timers, nextTimer, now>>

\* The request resolves: lines 367-368 (1077-1078) and the finally of lines
\* 372-374 (1082-1084).
generateResolved(text) ==
    /\ requests # <<>>
    /\ lastOp' = Op("generateResolved", Null)
    /\ alert' = ""
    /\ result' = text
    /\ loading' = FALSE
    /\ requests' = Tail(requests)
    /\ sections' = NoSections
    /\ printDoc' = NoDoc
    /\ UNCHANGED <<variant, images, apiKey, model, isSettingsOpen, isCameraOpen,
                   questionCount, customInstructions, studentName,
                   instructorName, sheetTitle, assignDate, dueDate, savedSheets,
                   showSavedListModal, tempImage, showCropModal, completedCrop,
                   mediaStream, longPressTimer, localStorage, liveStreams,
                   nextStream, pendingCamera, pendingClipboard, pendingReaders,
                   timers, nextTimer, sent, now>>

\* The request fails: the catch and the finally of lines 369-374 (1079-1084).
generateRejectedMutClears(msg) ==
    /\ requests # <<>>
    /\ lastOp' = Op("generateRejected", msg)
    /\ alert' = AlertGenerateFailed(msg)
    /\ result' = EmptyText
    /\ loading' = FALSE
    /\ requests' = Tail(requests)
    /\ sections' = NoSections
    /\ printDoc' = NoDoc
    /\ UNCHANGED <<variant, images, apiKey, model, isSettingsOpen, isCameraOpen,
                   questionCount, customInstructions, studentName,
                   instructorName, sheetTitle, assignDate, dueDate, savedSheets,
                   showSavedListModal, tempImage, showCropModal, completedCrop,
                   mediaStream, longPressTimer, localStorage, liveStreams,
                   nextStream, pendingCamera, pendingClipboard, pendingReaders,
                   timers, nextTimer, sent, now>>

generateRejected(msg) ==
    /\ requests # <<>>
    /\ lastOp' = Op("generateRejected", msg)
    /\ alert' = AlertGenerateFailed(msg)
    /\ loading' = FALSE
    /\ requests' = Tail(requests)
    /\ sections' = NoSections
    /\ printDoc' = NoDoc
    /\ UNCHANGED <<variant, images, result, apiKey, model, isSettingsOpen,
                   isCameraOpen, questionCount, customInstructions, studentName,
                   instructorName, sheetTitle, assignDate, dueDate, savedSheets,
                   showSavedListModal, tempImage, showCropModal, completedCrop,
                   mediaStream, longPressTimer, localStorage, liveStreams,
                   nextStream, pendingCamera, pendingClipboard, pendingReaders,
                   timers, nextTimer, sent, now>>

\* Generation: images are pasted, the key is entered, requests are sent and
\* settle.
NextGenerate ==
    \/ \E items \in PasteItems : handlePaste(items)
    \/ \E j \in 1..MaxReaders : readerLoaded(j)
    \/ \E open \in BOOLEAN : setIsSettingsOpen(open)
    \/ \E v \in ApiKeys : setApiKey(v)
    \/ handleGenerate
    \/ \E text \in Responses : generateResolved(text)
    \/ \E msg \in ErrorMessages : generateRejected(msg)

SpecGenerate == Init /\ [][NextGenerate]_vars

\* What a request carries, for a user whose API key is stored: the question
\* count and the extra instructions are set, images are pasted, requests are
\* sent and answered.
InitPrompt ==
    /\ variant \in {1, 2}
    /\ InitFrom(EmptyText, "key")

NextPrompt ==
    \/ stepperMinus
    \/ stepperPlus
    \/ \E t \in TypedCounts : questionCountInput(t)
    \/ \E v \in CustomTexts : setCustomInstructions(v)
    \/ \E items \in PasteItems : handlePaste(items)
    \/ \E j \in 1..MaxReaders : readerLoaded(j)
    \/ handleGenerate
    \/ generateResolved(FormatText)

SpecPrompt == InitPrompt /\ [][NextPrompt]_vars

----------------------------------------------------------------------------
(* Saved sheets (first component only) and the reload of the page.         *)

AlertNothingToSave == "nothing to save"

AlertSaved == "saved"

TitleUntitled == "untitled"

\* new Date().toISOString(), line 85.
toISOString(t) == <<"iso", t>>

\* The object of lines 77-86.
newSheet ==
    [id |-> now,
     title |-> IF sheetTitle # "" THEN sheetTitle ELSE TitleUntitled,
     studentName |-> studentName,
     instructorName |-> instructorName,
     assignDate |-> assignDate,
     dueDate |-> dueDate,
     result |-> result,
     createdAt |-> toISOString(now)]

\* JSON.stringify of the list (lines 89, 109): each sheet becomes the text of
\* its eight members, in the order of lines 78-85.
stringifySheet(sh) ==
    <<sh.id, sh.title, sh.studentName, sh.instructorName, sh.assignDate,
      sh.dueDate, sh.result, sh.createdAt>>

JSONstringify(list) == <<"json", [i \in 1..Len(list) |-> stringifySheet(list[i])]>>

\* JSON.parse of a stored list, line 56.
parseSheet(t) ==
    [id |-> t[1], title |-> t[2], studentName |-> t[3], instructorName |-> t[4],
     assignDate |-> t[5], dueDate |-> t[6], result |-> t[7], createdAt |-> t[8]]

JSONparseMutDropsLast(item) ==
    [i \in 1..(Len(item[2]) - 1) |-> parseSheet(item[2][i])]

JSONparse(item) == [i \in 1..Len(item[2]) |-> parseSheet(item[2][i])]

\* [...savedSheets, newSheet], line 87.
AppendMutPrepend(list, sh) == <<sh>> \o list

AppendSheet(list, sh) == Append(list, sh)

\* savedSheets.filter(s => s.id !== id), line 107.
RECURSIVE FilterSheets(_, _)
FilterSheets(list, id) ==
    IF list = <<>> THEN <<>>
    ELSE (IF Head(list).id # id THEN <<Head(list)>> ELSE <<>>)
         \o FilterSheets(Tail(list), id)

\* saveSheet, lines 72-91.
saveSheet ==
    /\ variant = 1
    /\ lastOp' = Op("saveSheet", Null)
    /\ IF result = EmptyText
       THEN /\ alert' = AlertNothingToSave
            /\ UNCHANGED <<savedSheets, localStorage>>
       ELSE /\ Len(savedSheets) < MaxSheets
            /\ alert' = AlertSaved
            /\ savedSheets' = AppendSheet(savedSheets, newSheet)
            /\ localStorage' =
                  [localStorage EXCEPT !.ruidai_saved_sheets =
                      JSONstringify(AppendSheet(savedSheets, newSheet))]
    /\ sections' = NoSections
    /\ printDoc' = NoDoc
    /\ UNCHANGED <<variant, images, result, loading, apiKey, model,
                   isSettingsOpen, isCameraOpen, questionCount,
                   customInstructions, studentName, instructorName, sheetTitle,
                   assignDate, dueDate, showSavedListModal, tempImage,
                   showCropModal, completedCrop, mediaStream, longPressTimer,
                   liveStreams, nextStream, pendingCamera, pendingClipboard,
                   pendingReaders, timers, nextTimer, requests, sent, now>>

\* loadSheet(sheet), lines 94-102, for sheet k of the list, followed by the
\* settings effect of lines 64-69 (the two names are among its dependencies).
loadSheet(k) ==
    /\ variant = 1
    /\ k \in 1..Len(savedSheets)
    /\ lastOp' = Op("loadSheet", k)
    /\ alert' = ""
    /\ sheetTitle' = savedSheets[k].title
    /\ studentName' = savedSheets[k].studentName
    /\ instructorName' = savedSheets[k].instructorName
    /\ assignDate' = savedSheets[k].assignDate
    /\ dueDate' = savedSheets[k].dueDate
    /\ result' = savedSheets[k].result
    /\ showSavedListModal' = FALSE
    /\ localStorage' = SaveSettings(localStorage, apiKey, model,
                                    savedSheets[k].studentName,
                                    savedSheets[k].instructorName)
    /\ sections' = NoSections
    /\ printDoc' = NoDoc
    /\ UNCHANGED <<variant, images, loading, apiKey, model, isSettingsOpen,
                   isCameraOpen, questionCount, customInstructions, savedSheets,
                   tempImage, showCropModal, completedCrop, mediaStream,
                   longPressTimer, liveStreams, nextStream, pendingCamera,
                   pendingClipboard, pendingReaders, timers, nextTimer,
                   requests, sent, now>>

\* deleteSheet(id), lines 105-110; confirmed is the answer to confirm().
deleteSheet(id, confirmed) ==
    /\ variant = 1
    /\ \E k \in 1..Len(savedSheets) : savedSheets[k].id = id
    /\ lastOp' = Op("deleteSheet", <<id, confirmed>>)
    /\ alert' = ""
    /\ IF confirmed
       THEN /\ savedSheets' = FilterSheets(savedSheets, id)
            /\ localStorage' =
                  [localStorage EXCEPT !.ruidai_saved_sheets =
                      JSONstringify(FilterSheets(savedSheets, id))]
       ELSE UNCHANGED <<savedSheets, localStorage>>
    /\ sections' = NoSections
    /\ printDoc' = NoDoc
    /\ UNCHANGED <<variant, images, result, loading, apiKey, model,
                   isSettingsOpen, isCameraOpen, questionCount,
                   customInstructions, studentName, instructorName, sheetTitle,
                   assignDate, dueDate, showSavedListModal, tempImage,
                   showCropModal, completedCrop, mediaStream, longPressTimer,
                   liveStreams, nextStream, pendingCamera, pendingClipboard,
                   pendingReaders, timers, nextTimer, requests, sent, now>>

\* The student-name input, line 811 (1182), followed by the settings effect.
setStudentName(v) ==
    /\ v # studentName
    /\ lastOp' = Op("setStudentName", Null)
    /\ alert' = ""
    /\ studentName' = v
    /\ localStorage' = SaveSettings(localStorage, apiKey, model, v, instructorName)
    /\ sections' = NoSections
    /\ printDoc' = NoDoc
    /\ UNCHANGED <<variant, images, result, loading, apiKey, model,
                   isSettingsOpen, isCameraOpen, questionCount,
                   customInstructions, instructorName, sheetTitle, assignDate,
                   dueDate, savedSheets, showSavedListModal, tempImage,
                   showCropModal, completedCrop, mediaStream, longPressTimer,
                   liveStreams, nextStream, pendingCamera, pendingClipboard,
                   pendingReaders, timers, nextTimer, requests, sent, now>>

\* The instructor-name input, line 820 (1191), followed by the settings
\* effect.
setInstructorName(v) ==
    /\ v # instructorName
    /\ lastOp' = Op("setInstructorName", Null)
    /\ alert' = ""
    /\ instructorName' = v
    /\ localStorage' = SaveSettings(localStorage, apiKey, model, studentName, v)
    /\ sections' = NoSections
    /\ printDoc' = NoDoc
    /\ UNCHANGED <<variant, images, result, loading, apiKey, model,
                   isSettingsOpen, isCameraOpen, questionCount,
                   customInstructions, studentName, sheetTitle, assignDate,
                   dueDate, savedSheets, showSavedListModal, tempImage,
                   showCropModal, completedCrop, mediaStream, longPressTimer,
                   liveStreams, nextStream, pendingCamera, pendingClipboard,
                   pendingReaders, timers, nextTimer, requests, sent, now>>

\* The options of the model select, lines 691-694 (1115-1118).
Models ==
    {"gemini-1.5-pro", "gemini-1.5-flash", "gemini-2.0-flash-exp", DefaultModel}

\* The model select of the settings modal, line 690 (1114), followed by the
\* settings effect.
setModel(v) ==
    /\ isSettingsOpen
    /\ v # model
    /\ lastOp' = Op("setModel", Null)
    /\ alert' = ""
    /\ model' = v
    /\ localStorage' = SaveSettings(localStorage, apiKey, v, studentName, instructorName)
    /\ sections' = NoSections
    /\ printDoc' = NoDoc
    /\ UNCHANGED <<variant, images, result, loading, apiKey,
                   isSettingsOpen, isCameraOpen, questionCount,
                   customInstructions, studentName, instructorName, sheetTitle, assignDate,
                   dueDate, savedSheets, showSavedListModal, tempImage,
                   showCropModal, completedCrop, mediaStream, longPressTimer,
                   liveStreams, nextStream, pendingCamera, pendingClipboard,
                   pendingReaders, timers, nextTimer, requests, sent, now>>

\* A millisecond passes.
tick ==
    /\ now < MaxTime
    /\ now' = now + 1
    /\ lastOp' = Op("tick", Null)
    /\ alert' = ""
    /\ sections' = NoSections
    /\ printDoc' = NoDoc
    /\ UNCHANGED <<variant, appVars, longPressTimer, localStorage, liveStreams,
                   nextStream, pendingCamera, pendingClipboard, pendingReaders,
                   timers, nextTimer, requests, sent>>

\* localStorage.getItem(key) || fallback, lines 16-23 (904-911).
getItemOr(key, fallback) ==
    IF localStorage[key] = NoItem \/ localStorage[key][1] = ""
    THEN fallback ELSE localStorage[key][1]

\* The page is reloaded: the component is constructed anew from local storage
\* (lines 13-43) and its mount effects run (lines 52-69, which exist in the
\* first component only for the saved sheets); what was in flight is gone and
\* the browser ends the camera streams of the page.
reload ==
    /\ lastOp' = Op("reload", Null)
    /\ alert' = ""
    /\ images' = <<>>
    /\ result' = EmptyText
    /\ loading' = FALSE
    /\ apiKey' = getItemOr("ruidai_api_key", "")
    /\ model' = getItemOr("ruidai_model", DefaultModel)
    /\ isSettingsOpen' = FALSE
    /\ isCameraOpen' = FALSE
    /\ questionCount' = 3
    /\ customInstructions' = ""
    /\ studentName' = getItemOr("ruidai_student", "")
    /\ instructorName' = getItemOr("ruidai_instructor", "")
    /\ sheetTitle' = ""
    /\ assignDate' = Today
    /\ dueDate' = ""
    /\ savedSheets' = IF variant = 1 /\ localStorage.ruidai_saved_sheets # NoItem
                      THEN JSONparse(localStorage.ruidai_saved_sheets)
                      ELSE <<>>
    /\ showSavedListModal' = FALSE
    /\ tempImage' = NoImage
    /\ showCropModal' = FALSE
    /\ completedCrop' = NoCrop
    /\ mediaStream' = NoStream
    /\ longPressTimer' = NoTimer
    /\ localStorage' = SaveSettings(localStorage,
                                    getItemOr("ruidai_api_key", ""),
                                    getItemOr("ruidai_model", DefaultModel),
                                    getItemOr("ruidai_student", ""),
                                    getItemOr("ruidai_instructor", ""))
    /\ liveStreams' = {}
    /\ pendingCamera' = 0
    /\ pendingClipboard' = 0
    /\ pendingReaders' = <<>>
    /\ timers' = {}
    /\ requests' = <<>>
    /\ sections' = NoSections
    /\ printDoc' = NoDoc
    /\ UNCHANGED <<variant, nextStream, nextTimer, sent, now>>

\* The saved sheets of the first component, from the states in which a reply
\* of the AI provider is shown or none is.
InitSheets ==
    /\ variant = 1
    /\ \E t \in Responses \cup {EmptyText} : InitWith(t)

NextSheets ==
    \/ saveSheet
    \/ \E k \in 1..MaxSheets : loadSheet(k)
    \/ \E id \in 1..MaxTime, confirmed \in BOOLEAN : deleteSheet(id, confirmed)
    \/ \E v \in Names : setStudentName(v)
    \/ tick
    \/ reload

SpecSheets == InitSheets /\ [][NextSheets]_vars

\* Saved sheets are loaded while AI requests are sent and answered, by a
\* user of the first component whose API key is stored.
InitLoad ==
    /\ variant = 1
    /\ \E t \in {EmptyText, PlainLine} : InitFrom(t, "key")

NextLoad ==
    \/ handlePaste(<<"a">>)
    \/ \E j \in 1..MaxReaders : readerLoaded(j)
    \/ handleGenerate
    \/ \E text \in Responses : generateResolved(text)
    \/ \E msg \in ErrorMessages : generateRejected(msg)
    \/ saveSheet
    \/ \E k \in 1..MaxSheets : loadSheet(k)

SpecLoad == InitLoad /\ [][NextLoad]_vars

\* The four persisted settings: they are changed in the settings modal, in
\* the two name inputs and by loadSheet, and read back on a reload.
NextSettings ==
    \/ \E open \in BOOLEAN : setIsSettingsOpen(open)
    \/ \E v \in ApiKeys : setApiKey(v)
    \/ \E v \in Models : setModel(v)
    \/ \E v \in Names : setStudentName(v)
    \/ \E v \in Names : setInstructorName(v)
    \/ saveSheet
    \/ \E k \in 1..MaxSheets : loadSheet(k)
    \/ reload

InitSettings ==
    /\ variant \in {1, 2}
    /\ \E t \in {EmptyText, PlainLine} : InitWith(t)

SpecSettings == InitSettings /\ [][NextSettings]_vars

----------------------------------------------------------------------------
(* The splitter and the print assembly as functions of the reply: result   *)
(* is any text of Texts, as after a reply of the AI provider.              *)

InitSplit ==
    /\ variant = 1
    /\ \E t \in Texts : InitWith(t)

NextSplit == \E mode \in Modes : openPrintPreview(mode)

SpecSplit == InitSplit /\ [][NextSplit]_vars

----------------------------------------------------------------------------
(* The print window: the document of lines 479-645 once the browser has    *)
(* loaded it, and the two listeners of its script (lines 626-642).         *)

\* min-height: 297mm of .print-wrapper, line 503: the height of an A4 page.
PageHeight == 297

\* The heights (mm) the browser may lay the content out at, at zoom 100%.
Heights == {200, 297, 400, 700}

\* The values of <input type="range" min="50" max="150" step="5">, line 611.
SliderValues == {50 + 5 * k : k \in 0..20}

\* The titles typed in the title input (line 608).
TypedTitles == {"T"}

\* The height the content takes on paper: body.style.zoom scales it.
RenderedHeight(doc) == (doc.height * doc.zoom) \div 100

\* The step's print window is the one of the last step.
PrintWindowOpen == printDoc.title # Null

\* The new window has parsed the document and run its script (lines
\* 626-642): the script looks three elements up and registers two listeners;
\* it reads no size and sets no zoom.  h is the height of the laid-out
\* content.
printLoadedMutFits(h) ==
    /\ variant = 1
    /\ PrintWindowOpen
    /\ ~printDoc.loaded
    /\ lastOp' = Op("printLoaded", Null)
    /\ alert' = ""
    /\ printDoc' = [printDoc EXCEPT !.loaded = TRUE, !.height = h,
                                     !.zoom = IF h > PageHeight THEN 50 ELSE @]
    /\ UNCHANGED <<variant, appVars, envVars, sections>>

printLoaded(h) ==
    /\ variant = 1
    /\ PrintWindowOpen
    /\ ~printDoc.loaded
    /\ lastOp' = Op("printLoaded", Null)
    /\ alert' = ""
    /\ printDoc' = [printDoc EXCEPT !.loaded = TRUE, !.height = h]
    /\ UNCHANGED <<variant, appVars, envVars, sections>>

\* The 'input' listener of the slider, lines 631-635.
sliderInput(val) ==
    /\ variant = 1
    /\ PrintWindowOpen
    /\ printDoc.loaded
    /\ lastOp' = Op("sliderInput", val)
    /\ alert' = ""
    /\ printDoc' = [printDoc EXCEPT !.scaleVal = val, !.zoom = val]
    /\ UNCHANGED <<variant, appVars, envVars, sections>>

\* el.textContent = newTitle for every .main-title element, line 639.
setMainTitles(content, newTitle) ==
    [i \in 1..Len(content) |->
        IF content[i].kind = "print-header"
        THEN [content[i] EXCEPT !.title = newTitle]
        ELSE content[i]]

\* The 'input' listener of the title input, lines 637-641.
titleInput(newTitle) ==
    /\ variant = 1
    /\ PrintWindowOpen
    /\ printDoc.loaded
    /\ lastOp' = Op("titleInput", newTitle)
    /\ alert' = ""
    /\ printDoc' = [printDoc EXCEPT !.title = newTitle,
                                     !.content = setMainTitles(@, newTitle)]
    /\ UNCHANGED <<variant, appVars, envVars, sections>>

\* The print preview of a reply and what happens in its window.
InitPrint ==
    /\ variant = 1
    /\ \E t \in Responses \cup {EmptyText} : InitWith(t)

NextPrint ==
    \/ \E mode \in Modes : openPrintPreview(mode)
    \/ \E h \in Heights : printLoaded(h)
    \/ \E val \in SliderValues : sliderInput(val)
    \/ \E newTitle \in TypedTitles : titleInput(newTitle)

SpecPrint == InitPrint /\ [][NextPrint]_vars

\* The print preview among the other uses of the first component: images
\* are pasted, sheets are saved, the camera is opened.
InitFrame ==
    /\ variant = 1
    /\ \E t \in {EmptyText, JoinLines(<<HeadingProblem, PlainLine>>)} : InitWith(t)

NextFrame ==
    \/ \E mode \in Modes : openPrintPreview(mode)
    \/ \E items \in PasteItems : handlePaste(items)
    \/ \E j \in 1..MaxReaders : readerLoaded(j)
    \/ saveSheet
    \/ startCamera
    \/ cameraGranted

SpecFrame == InitFrame /\ [][NextFrame]_vars

----------------------------------------------------------------------------
(* markdownToHtml as a function of its text: the default branch of the     *)
(* switch (lines 467-469) hands result to it as it is.                     *)

MaxChars == 4

PlainChars == {"A", " ", "\n"}

PlainTexts == UNION {[1..n -> PlainChars] : n \in 0..MaxChars}

InitMarkdown ==
    /\ variant = 1
    /\ \E t \in PlainTexts : InitWith(t)

NextMarkdown == openPrintPreview(OtherMode)

SpecMarkdown == InitMarkdown /\ [][NextMarkdown]_vars

----------------------------------------------------------------------------
(* The whole application: every handler and every completion.              *)

Next ==
    \/ NextPrint
    \/ NextFrame
    \/ NextMarkdown
    \/ NextImages
    \/ NextPaste
    \/ NextCamera
    \/ NextPress
    \/ NextGenerate
    \/ NextPrompt
    \/ NextSheets
    \/ NextLoad
    \/ NextSettings
    \/ NextSplit

Spec == Init /\ [][Next]_vars

----------------------------------------------------------------------------
(* Properties of the section splitter (lines 381-388), stated on the lines *)
(* of the text and on its characters, apart from the model of the regular  *)
(* expressions.                                                            *)

Previewed == lastOp.op = "openPrintPreview" /\ result # EmptyText

HasLine(s, line) == \E i \in 1..Len(SplitLines(s)) : SplitLines(s)[i] = line

Occurs(s, pat) == \E i \in 1..Len(s) : MatchesAt(s, pat, i)

StartsWith(s, pat) == MatchesAt(s, pat, 1)

\* t is s without its leading and trailing white space.
IsTrimOf(t, s) ==
    \E a \in 0..Len(s) : \E b \in 0..(Len(s) - a) :
        /\ \A i \in 1..a : s[i] \in WhiteSpace
        /\ \A i \in (Len(s) - b + 1)..Len(s) : s[i] \in WhiteSpace
        /\ t = SubSeq(s, a + 1, Len(s) - b)
        /\ t # EmptyText => (t[1] \notin WhiteSpace /\ t[Len(t)] \notin WhiteSpace)

\* The three heading lines are lines of s, in the order problem, solution,
\* instructor guide.
HeadingsInOrder(s) ==
    LET ls == SplitLines(s)
    IN  \E i, j, k \in 1..Len(ls) :
            /\ i < j /\ j < k
            /\ ls[i] = HeadingProblem
            /\ ls[j] = HeadingSolution
            /\ ls[k] = HeadingInstructor

\* A line at which a section ends: a level-2 heading or a horizontal rule.
StartsSection(line) ==
    StartsWith(line, <<"#", "#", " ">>) \/ StartsWith(line, RuleMarker)

\* The text between the first line equal to heading and the start of the
\* next section (the end of the text for the last section), trimmed.
SectionByLines(s, heading, last) ==
    LET ls == SplitLines(s)
        h == Min({i \in 1..Len(ls) : ls[i] = heading})
        stops == {i \in (h + 1)..Len(ls) : StartsSection(ls[i])}
        e == IF last \/ stops = {} THEN Len(ls) + 1 ELSE Min(stops)
    IN  Trim(JoinLines(SubSeq(ls, h + 1, e - 1)))

\* C1: for a text that holds the three heading lines in order, each of the
\* three extracted sections is exactly the text between its heading line and
\* the start of the next section, trimmed, without the heading line.
C1_SectionsBetweenHeadings ==
    (Previewed /\ HeadingsInOrder(result)) =>
        /\ sections.problem = SectionByLines(result, HeadingProblem, FALSE)
        /\ sections.solution = SectionByLines(result, HeadingSolution, FALSE)
        /\ sections.instructor = SectionByLines(result, HeadingInstructor, TRUE)

\* C2: a section whose heading line is absent from the text is extracted as
\* the empty string, whatever else the text holds.
C2_AbsentHeadingEmptySection ==
    Previewed =>
        /\ ~HasLine(result, HeadingProblem) => sections.problem = EmptyText
        /\ ~HasLine(result, HeadingSolution) => sections.solution = EmptyText
        /\ ~HasLine(result, HeadingInstructor) => sections.instructor = EmptyText

NoMarkerIn(s) == ~Occurs(s, RuleMarker) /\ ~Occurs(s, NextHeadingMarker)

NoMarkerOrHeadingLine(s) ==
    /\ ~Occurs(s, RuleMarker)
    /\ \A i \in 1..Len(SplitLines(s)) :
          ~StartsWith(SplitLines(s)[i], <<"#", "#", " ">>)

\* C3 as claimed: none of the three extracted sections holds a '---' marker
\* or a line that starts with '## '.
C3_AllSectionsEndAtMarker ==
    Previewed =>
        /\ NoMarkerOrHeadingLine(sections.problem)
        /\ NoMarkerOrHeadingLine(sections.solution)
        /\ NoMarkerOrHeadingLine(sections.instructor)

\* sec is the trimmed text that follows the first occurrence of heading in s
\* up to the first '---' or newline-'## ' after it (toEnd: up to the end of
\* the text whatever it holds).
EndsAtFirstMarker(sec, s, heading, toEnd) ==
    \E p \in 1..Len(s) :
        /\ MatchesAt(s, heading, p)
        /\ \A q \in 1..(p - 1) : ~MatchesAt(s, heading, q)
        /\ \E e \in (p + Len(heading))..(Len(s) + 1) :
              /\ IF toEnd THEN e = Len(s) + 1
                 ELSE /\ \/ e = Len(s) + 1
                         \/ MatchesAt(s, RuleMarker, e)
                         \/ MatchesAt(s, NextHeadingMarker, e)
                      /\ \A f \in (p + Len(heading))..(e - 1) :
                            /\ ~MatchesAt(s, RuleMarker, f)
                            /\ ~MatchesAt(s, NextHeadingMarker, f)
              /\ IsTrimOf(sec, SubSeq(s, p + Len(heading), e - 1))

\* C3, amended: the problem and the solution section end at the first '---',
\* the first newline followed by '## ', or the end of the text, and hold
\* neither marker; the instructor-guide section runs to the end of the text.
C3_ProblemSolutionEndAtMarker ==
    Previewed =>
        /\ NoMarkerIn(sections.problem)
        /\ NoMarkerIn(sections.solution)
        /\ Occurs(result, HeadingProblem) =>
              EndsAtFirstMarker(sections.problem, result, HeadingProblem, FALSE)
        /\ Occurs(result, HeadingSolution) =>
              EndsAtFirstMarker(sections.solution, result, HeadingSolution, FALSE)
        /\ Occurs(result, HeadingInstructor) =>
              EndsAtFirstMarker(sections.instructor, result, HeadingInstructor, TRUE)

\* A preview of a text whose problem section is cut at a '---' and whose
\* instructor-guide section holds one.
C3_Witness ==
    /\ Previewed
    /\ sections.problem # EmptyText
    /\ Occurs(result, HeadingProblem \o <<"\n">> \o PlainLine \o <<"\n">> \o RuleMarker)
    /\ Occurs(sections.instructor, RuleMarker)

\* C4 as claimed: the problem section of the example is
\* "### mon dai 1\nWhat is 2+2?".
C4_ExampleAsClaimed ==
    (Previewed /\ result = ExampleText) =>
        sections.problem = JoinLines(<<Level3Heading, QuestionLine>>)

\* C4, amended: the problem section of the example is
\* "A\n### mon dai 1\nWhat is 2+2?": the line A after the heading is kept.
C4_ExampleProblemSection ==
    (Previewed /\ result = ExampleText) =>
        sections.problem = JoinLines(<<PlainLine, Level3Heading, QuestionLine>>)

C4_Witness == Previewed /\ result = ExampleText /\ sections.problem # EmptyText

----------------------------------------------------------------------------
(* Properties of the print assembly (lines 394-470).                       *)

IsSection(b) == b.kind = "print-section"

IsHeader(b) == b.kind = "print-header"

\* The section blocks of the document, in order.
SectionsOf(doc) == SelectSeq(doc.content, IsSection)

SectionBlock(title, content) ==
    [kind |-> "print-section", h2 |-> title, body |-> markdownToHtml(content)]

\* Between two consecutive section blocks of c there is a page break.
BreakBetweenSections(c) ==
    \A i, j \in 1..Len(c) :
        (i < j /\ IsSection(c[i]) /\ IsSection(c[j])) =>
            \E k \in (i + 1)..(j - 1) : c[k] = PageBreak

\* A score box stands only in a header directly followed by the problem
\* section.
ScoreOnlyBeforeProblem(c) ==
    \A i \in 1..Len(c) :
        (IsHeader(c[i]) /\ c[i].scoreBox) =>
            /\ i < Len(c)
            /\ IsSection(c[i + 1])
            /\ c[i + 1].h2 = TitleProblem

\* C10: the document of openPrintPreview(mode) embeds exactly the sections
\* of the mode: the problem, the solution or the instructor-guide section
\* alone, or for 'full' all three in that order with a page break between
\* consecutive sections; the score box stands only before a problem section.
C10_ModeSelectsSections ==
    Previewed =>
        LET mode == lastOp.arg
            secs == SectionsOf(printDoc)
            P == SectionBlock(TitleProblem, sections.problem)
            S == SectionBlock(TitleSolution, sections.solution)
            G == SectionBlock(TitleInstructor, sections.instructor)
        IN  /\ mode = "problem" => secs = <<P>>
            /\ mode = "solution" => secs = <<S>>
            /\ mode = "instructor" => secs = <<G>>
            /\ mode = "full" => secs = <<P, S, G>>
            /\ BreakBetweenSections(printDoc.content)
            /\ ScoreOnlyBeforeProblem(printDoc.content)
            /\ mode \in {"problem", "full"} =>
                  \E i \in 1..Len(printDoc.content) :
                      IsHeader(printDoc.content[i]) /\ printDoc.content[i].scoreBox

\* A 'full' preview of a reply with three non-empty, pairwise different
\* sections.
C10_Witness ==
    /\ Previewed
    /\ lastOp.arg = "full"
    /\ sections.problem # EmptyText
    /\ sections.solution # EmptyText
    /\ sections.instructor # EmptyText
    /\ sections.problem # sections.solution
    /\ sections.solution # sections.instructor
    /\ Len(SectionsOf(printDoc)) = 3

----------------------------------------------------------------------------
(* Properties of the image list, the camera, the AI request and the saved  *)
(* sheets.                                                                 *)

\* C5: deleteImage(i) on n images leaves n-1 images: the original ones
\* without the one at position i, the others in their order.
C5_DeleteImageRemovesIndex ==
    [][lastOp'.op = "deleteImage" =>
          /\ Len(images') = Len(images) - 1
          /\ \A k \in 1..Len(images') :
                images'[k] = IF k <= lastOp'.arg THEN images[k] ELSE images[k + 1]
      ]_vars

\* The middle one of three images was deleted and the two that remain are
\* equal images.
C5_Witness ==
    /\ lastOp.op = "deleteImage"
    /\ lastOp.arg = 1
    /\ Len(images) = 2
    /\ images[1] = images[2]

\* C6: whenever the camera is closed, no stream that startCamera acquired is
\* still live.
C6_ClosedCameraHoldsNoStream == ~isCameraOpen => liveStreams = {}

\* C7: a failed AI request shows an alert with the error message, leaves
\* result as it was, ends loading and sends nothing again; and while the
\* request is in flight nothing but its success changes result.
C7_FailureKeepsResult ==
    [][ /\ lastOp'.op = "generateRejected" =>
              /\ lastOp'.arg = "quota" => alert' = "generate failed: quota"
              /\ lastOp'.arg = "network" => alert' = "generate failed: network"
              /\ result' = result
              /\ loading
              /\ ~loading'
              /\ sent' = sent
              /\ requests' = <<>>
        /\ (loading /\ lastOp'.op # "generateResolved") => result' = result
      ]_vars

\* A request failed after an earlier one had succeeded: the earlier reply is
\* still the result.
C7_Witness ==
    /\ lastOp.op = "generateRejected"
    /\ result # EmptyText
    /\ ~loading
    /\ sent = 2

\* C8: a denied or failed camera access and a failed clipboard read show an
\* alert and change nothing of the application: a closed camera stays closed
\* with no stream held, no image is appended, the crop modal is not opened.
C8_DenialChangesNothing ==
    [][ (\/ lastOp'.op \in {"cameraDenied", "clipboardDenied"}
         \/ (lastOp'.op = "startCamera" /\ alert' = AlertUnsupported)) =>
            /\ alert' # ""
            /\ UNCHANGED <<appVars, liveStreams, pendingReaders>>
            /\ ~isCameraOpen => (~isCameraOpen' /\ mediaStream' = NoStream)
      ]_vars

\* The clipboard read of a long press failed: the alert is up, the camera is
\* closed, no image and no crop modal.
C8_Witness ==
    /\ lastOp.op = "clipboardDenied"
    /\ alert = AlertClipboardFailed
    /\ ~isCameraOpen
    /\ mediaStream = NoStream
    /\ images = <<>>
    /\ ~showCropModal

\* C9: the saved-sheet list changes only by append and by delete-by-id:
\* saveSheet with a result appends one sheet after the unchanged earlier
\* ones; a confirmed deleteSheet(id) keeps exactly the sheets of another id,
\* in order; every other step leaves the list as it is.
C9_ListOnlyAppendsAndDeletes ==
    [][ LET op == lastOp'.op
        IN  /\ (op = "saveSheet" /\ result # EmptyText) =>
                  /\ Len(savedSheets') = Len(savedSheets) + 1
                  /\ SubSeq(savedSheets', 1, Len(savedSheets)) = savedSheets
                  /\ savedSheets'[Len(savedSheets')].result = result
            /\ (op = "saveSheet" /\ result = EmptyText) =>
                  savedSheets' = savedSheets
            /\ (op = "deleteSheet" /\ lastOp'.arg[2]) =>
                  savedSheets' =
                      SelectSeq(savedSheets, LAMBDA sh : sh.id # lastOp'.arg[1])
            /\ (op = "deleteSheet" /\ ~lastOp'.arg[2]) =>
                  savedSheets' = savedSheets
            /\ op \notin {"saveSheet", "deleteSheet"} =>
                  savedSheets' = savedSheets
      ]_vars

\* One of two saved sheets was deleted and the other one is still there.
C9_Witness ==
    /\ lastOp.op = "deleteSheet"
    /\ lastOp.arg[2]
    /\ Len(savedSheets) = 1

----------------------------------------------------------------------------
(* Properties of the print window, of the settings, of the AI request, of  *)
(* the paste event and of the sheet ids.                                   *)

\* C11 as claimed: once the document has loaded, before any user input, its
\* content takes no more than one page height.
C11_LoadedContentFitsPage ==
    lastOp.op = "printLoaded" => RenderedHeight(printDoc) <= PageHeight

\* C11, amended: the script scales nothing by itself: until the user moves
\* the slider the zoom is 100% and the content keeps its laid-out height,
\* and after a slider input the zoom is the value of the slider.
C11_ZoomOnlyBySlider ==
    PrintWindowOpen =>
        /\ printDoc.zoom = printDoc.scaleVal
        /\ printDoc.zoom \in SliderValues
        /\ lastOp.op \in {"openPrintPreview", "printLoaded"} =>
              printDoc.zoom = SliderDefault
        /\ lastOp.op = "printLoaded" => RenderedHeight(printDoc) = printDoc.height
        /\ lastOp.op = "sliderInput" => printDoc.zoom = lastOp.arg

\* A document longer than a page has loaded and is still longer than a page.
C11_Witness ==
    /\ lastOp.op = "printLoaded"
    /\ printDoc.height > PageHeight
    /\ RenderedHeight(printDoc) > PageHeight

\* markdownToHtml has been applied to result as it is, and out is what it
\* returned.
MarkdownApplied ==
    /\ lastOp.op = "openPrintPreview"
    /\ lastOp.arg = OtherMode
    /\ result # EmptyText

MarkdownOut == printDoc.content[1]

\* The characters of t that stand outside tags and are no white space.
RECURSIVE VisibleText(_, _)
VisibleText(t, inTag) ==
    IF t = <<>> THEN <<>>
    ELSE IF Head(t) = "<" THEN VisibleText(Tail(t), TRUE)
    ELSE IF Head(t) = ">" THEN VisibleText(Tail(t), FALSE)
    ELSE (IF inTag \/ Head(t) \in WhiteSpace THEN <<>> ELSE <<Head(t)>>)
         \o VisibleText(Tail(t), inTag)

\* The number of places where pat stands in t.
CountOf(t, pat) == Cardinality({i \in 1..Len(t) : MatchesAt(t, pat, i)})

\* The number of paragraphs of t: the lines with a visible character that
\* follow no such line.
ParagraphCount(t) ==
    LET ls == SplitLines(t)
        vis(k) == \E i \in 1..Len(ls[k]) : ls[k][i] \notin WhiteSpace
    IN  Cardinality({k \in 1..Len(ls) : vis(k) /\ (k = 1 \/ ~vis(k - 1))})

\* C12 as claimed: on plain text markdownToHtml returns its input (there
\* being no paragraph break to substitute in a text without an empty line;
\* surrounding white space is left out of the comparison), and a second
\* application changes nothing.
C12_PlainTextIdempotent ==
    (MarkdownApplied /\ IsPlainText(result)) =>
        /\ ~Occurs(result, <<"\n", "\n">>) => Trim(MarkdownOut) = Trim(result)
        /\ markdownToHtml(MarkdownOut) = MarkdownOut

\* C12, amended: on plain text markdownToHtml returns the paragraphs of the
\* text, each in a p element: nothing for a text of white space, and else
\* markup that differs from the input, holds the visible characters of the
\* input in their order, and that a second application does not leave as it
\* is but escapes.
C12_PlainTextBecomesParagraphs ==
    (MarkdownApplied /\ IsPlainText(result)) =>
        LET out == MarkdownOut
            blank == \A i \in 1..Len(result) : result[i] \in WhiteSpace
        IN  /\ blank => out = EmptyText
            /\ ~blank =>
                  /\ StartsWith(out, <<"<", "p", ">">>)
                  /\ MatchesAt(out, <<"<", "/", "p", ">">>, Len(out) - 3)
                  /\ out # result
                  /\ markdownToHtml(out) # out
                  /\ Occurs(markdownToHtml(out), <<"&", "l", "t", ";">>)
            /\ VisibleText(out, FALSE) = VisibleText(result, FALSE)
            /\ CountOf(out, <<"<", "p", ">">>) = ParagraphCount(result)

\* markdownToHtml was applied to a plain text of two paragraphs.
C12_Witness ==
    /\ MarkdownApplied
    /\ IsPlainText(result)
    /\ ParagraphCount(result) = 2
    /\ CountOf(MarkdownOut, <<"<", "p", ">">>) = 2

\* The four values in local storage are the four values in memory.
StoredSettings ==
    /\ localStorage.ruidai_api_key = <<apiKey>>
    /\ localStorage.ruidai_model = <<model>>
    /\ localStorage.ruidai_student = <<studentName>>
    /\ localStorage.ruidai_instructor = <<instructorName>>

\* C13: after every step the four stored settings equal the values in
\* memory, and a reload leaves the four values in memory as they were.
C13_SettingsPersist ==
    [][ /\ StoredSettings'
        /\ lastOp'.op = "reload" =>
              /\ apiKey' = apiKey
              /\ model' = model
              /\ studentName' = studentName
              /\ instructorName' = instructorName
      ]_vars

\* A reload after all four settings were changed and a sheet was saved.
C13_Witness ==
    /\ lastOp.op = "reload"
    /\ apiKey # ""
    /\ model # DefaultModel
    /\ studentName # ""
    /\ instructorName # ""
    /\ savedSheets # <<>>

\* The step sends an AI request.
SendsRequest == Len(requests') = Len(requests) + 1

\* The request carries the images of the list, in their order.
CarriesImages(r, imgs) ==
    /\ Len(r.images) = Len(imgs)
    /\ \A i \in 1..Len(imgs) :
          r.images[i] = [data |-> imgs[i], mimeType |-> "image/png"]

\* C14 as claimed: every request carries the same instruction text, the one
\* of the initial question count and of no custom instructions, and the
\* images of the list in their order.
C14_InstructionFixed ==
    [][ SendsRequest =>
          LET r == requests'[Len(requests')]
          IN  /\ r.prompt = [template |-> variant, questionCount |-> 3, extra |-> <<>>]
              /\ CarriesImages(r, images)
      ]_vars

\* C14, amended: the instruction text is the template of the component with
\* the question count and, when there are any, the custom instructions of
\* the moment the request is sent; the request carries the images of that
\* moment, at least one, in their order.
C14_InstructionFromTemplate ==
    [][ SendsRequest =>
          LET r == requests'[Len(requests')]
          IN  /\ r.prompt.template = variant
              /\ r.prompt.questionCount = questionCount
              /\ customInstructions = "" => r.prompt.extra = <<>>
              /\ customInstructions # "" =>
                    r.prompt.extra = <<"extra", customInstructions>>
              /\ images # <<>>
              /\ CarriesImages(r, images)
      ]_vars

\* A request with another question count, custom instructions and two
\* different images has just been sent.
C14_Witness ==
    /\ lastOp.op = "handleGenerate"
    /\ requests # <<>>
    /\ requests[1].prompt.questionCount # 3
    /\ requests[1].prompt.extra # <<>>
    /\ Len(requests[1].images) = 2
    /\ requests[1].images[1] # requests[1].images[2]

\* C15: a step of openPrintPreview changes nothing of the application: not
\* the state of the component, not what it has in flight, not the store;
\* with an empty result it opens no window, and else it writes the document
\* of the mode to a new window.
C15_PreviewChangesNothing ==
    [][ lastOp'.op = "openPrintPreview" =>
          /\ UNCHANGED <<variant, appVars, envVars>>
          /\ alert' = ""
          /\ result = EmptyText => printDoc' = NoDoc
          /\ result # EmptyText =>
                /\ printDoc'.title = printTitle(lastOp'.arg)
                /\ printDoc'.content # <<>>
      ]_vars

\* A preview was opened with images in the list, a sheet saved and the
\* camera open.
C15_Witness ==
    /\ lastOp.op = "openPrintPreview"
    /\ printDoc # NoDoc
    /\ images # <<>>
    /\ savedSheets # <<>>
    /\ isCameraOpen

\* C16: a request is sent only by handleGenerate, with at least one image
\* and a non-empty API key; handleGenerate with no image changes nothing and
\* shows nothing; with images and an empty key it shows the alert, opens the
\* settings modal, sends nothing and leaves loading and result as they were;
\* with images and a key it sends a request.
C16_GenerateGuards ==
    [][ /\ SendsRequest =>
              /\ lastOp'.op = "handleGenerate"
              /\ images # <<>>
              /\ apiKey # ""
        /\ lastOp'.op = "handleGenerate" =>
              /\ images = <<>> =>
                    /\ UNCHANGED <<variant, appVars, envVars>>
                    /\ alert' = ""
              /\ (images # <<>> /\ apiKey = "") =>
                    /\ alert' = AlertNoApiKey
                    /\ isSettingsOpen'
                    /\ UNCHANGED <<requests, sent, result, images, apiKey>>
                    /\ ~loading'
              /\ (images # <<>> /\ apiKey # "") =>
                    /\ SendsRequest
                    /\ loading'
                    /\ alert' = ""
      ]_vars

\* handleGenerate has just refused to run for want of an API key.
C16_Witness ==
    /\ lastOp.op = "handleGenerate"
    /\ alert = AlertNoApiKey
    /\ images # <<>>
    /\ apiKey = ""
    /\ isSettingsOpen
    /\ ~loading
    /\ requests = <<>>

\* C17: after every step at most one AI request is in flight and loading is
\* true exactly while one is; handleGenerate does not run while loading.
C17_OneRequestInFlight ==
    [][ /\ Len(requests') <= 1
        /\ loading' <=> requests' # <<>>
        /\ loading => lastOp'.op # "handleGenerate"
      ]_vars

\* A second request is in flight after the first has settled.
C17_Witness ==
    /\ lastOp.op = "handleGenerate"
    /\ loading
    /\ Len(requests) = 1
    /\ sent = 2

\* C18: loadSheet(s) sets result to s.result, and the step that follows a
\* loadSheet changes result only if it is the user's next generation or
\* another loadSheet: no completion of what was in flight changes it.
C18_LoadedResultStays ==
    [][ /\ lastOp'.op = "loadSheet" =>
              result' = savedSheets[lastOp'.arg].result
        /\ (lastOp.op = "loadSheet" /\ lastOp'.op \notin {"handleGenerate", "loadSheet"}) =>
              result' = result
      ]_vars

\* The reads of pasted images that are still in flight.
PastedReaders(readers) == SelectSeq(readers, LAMBDA r : r.target = "images")

\* The images held and those of the paste events on their way.
HeldAndComing(imgs, readers) == Len(imgs) + Len(PastedReaders(readers))

\* a is b with one element left out.
IsWithoutOne(a, b) ==
    \E i \in 1..Len(b) : a = SubSeq(b, 1, i - 1) \o SubSeq(b, i + 1, Len(b))

\* C19: a paste event of k image items starts k reads and appends nothing
\* yet; every read that completes, in whatever order, appends its image at
\* the end of the list as it then is; deleteImage and confirmCrop leave the
\* reads in flight alone, the one taking one image out and the other adding
\* one at the end; so the images held and coming are never fewer than these
\* steps account for, and the images of the list keep their order.
C19_NoPastedImageLost ==
    [][ /\ lastOp'.op = "handlePaste" =>
              /\ images' = images
              /\ \E items \in PasteItems :
                    pendingReaders' = pendingReaders \o ReadersFor(items)
              /\ \E k \in 1..MaxReaders :
                    HeldAndComing(images', pendingReaders')
                        = HeldAndComing(images, pendingReaders) + k
        /\ lastOp'.op = "readerLoaded" =>
              \E j \in 1..Len(pendingReaders) :
                  /\ pendingReaders' = RemoveAt(pendingReaders, j)
                  /\ pendingReaders[j].target = "images" =>
                        /\ images' = Append(images, pendingReaders[j].data)
                        /\ HeldAndComing(images', pendingReaders')
                               = HeldAndComing(images, pendingReaders)
                  /\ pendingReaders[j].target # "images" => images' = images
        /\ lastOp'.op = "deleteImage" =>
              /\ pendingReaders' = pendingReaders
              /\ IsWithoutOne(images', images)
        /\ lastOp'.op = "confirmCrop" =>
              /\ pendingReaders' = pendingReaders
              /\ Len(images') = Len(images) + 1
              /\ SubSeq(images', 1, Len(images)) = images
        /\ lastOp'.op \notin {"handlePaste", "readerLoaded", "deleteImage", "confirmCrop"} =>
              HeldAndComing(images', pendingReaders')
                  = HeldAndComing(images, pendingReaders)
      ]_vars

\* The second of two pasted images has been read after a crop was confirmed
\* between the two reads: both are in the list, around the cropped image.
C19_Witness ==
    /\ lastOp.op = "readerLoaded"
    /\ pendingReaders = <<>>
    /\ Len(images) = 3
    /\ images[1][2] = NoCrop
    /\ images[2][2] # NoCrop
    /\ images[3][2] = NoCrop
    /\ images[1] # images[3]

\* C20: the sheets of the saved-sheet list have pairwise distinct ids.
C20_SheetIdsDistinct ==
    \A i, j \in 1..Len(savedSheets) :
        i # j => savedSheets[i].id # savedSheets[j].id

----------------------------------------------------------------------------
(* Properties of the stored sheets, of the camera, of the crop modal, of   *)
(* the long press and of the question count.                               *)

\* The list that a mount of the first component would read from local
\* storage (lines 52-59).
StoredSheets(store) ==
    IF store.ruidai_saved_sheets = NoItem THEN <<>>
    ELSE JSONparse(store.ruidai_saved_sheets)

\* C21: after every saveSheet that saves and every confirmed deleteSheet the
\* text stored under 'ruidai_saved_sheets' is the serialized in-memory list;
\* in every state the stored text parses back to the in-memory list, so a
\* reload restores the list it had; and a saveSheet keeps every sheet that
\* was stored before it, in order.
C21_StoredSheetsAreTheList ==
    [][ LET op == lastOp'.op
        IN  /\ StoredSheets(localStorage') = savedSheets'
            /\ ( \/ (op = "saveSheet" /\ result # EmptyText)
                 \/ (op = "deleteSheet" /\ lastOp'.arg[2]) ) =>
                  localStorage'.ruidai_saved_sheets = JSONstringify(savedSheets')
            /\ op = "reload" =>
                  /\ savedSheets' = savedSheets
                  /\ localStorage'.ruidai_saved_sheets =
                        localStorage.ruidai_saved_sheets
            /\ op = "saveSheet" =>
                  /\ Len(StoredSheets(localStorage')) >= Len(StoredSheets(localStorage))
                  /\ SubSeq(StoredSheets(localStorage'), 1,
                            Len(StoredSheets(localStorage)))
                        = StoredSheets(localStorage)
      ]_vars

\* The page was reloaded with two different sheets stored, and both are in
\* the list again.
C21_Witness ==
    /\ lastOp.op = "reload"
    /\ Len(savedSheets) = 2
    /\ savedSheets[1] # savedSheets[2]
    /\ localStorage.ruidai_saved_sheets = JSONstringify(savedSheets)

\* C22: in every state the camera is open exactly if the component holds a
\* media stream.
C22_CameraOpenIffStream == isCameraOpen <=> mediaStream # NoStream

\* The camera was started twice and closed after the first stream arrived:
\* it is closed and holds no stream while the second request is pending.
C22_Witness ==
    /\ lastOp.op \in {"stopCamera", "captureImage"}
    /\ ~isCameraOpen
    /\ mediaStream = NoStream
    /\ pendingCamera > 0

\* A step of the first component puts an image into the crop modal: a
\* capture, or the load of a clipboard read (neither changes the image list).
EntersCropModal ==
    /\ variant = 1
    /\ lastOp'.op \in {"captureImage", "readerLoaded"}
    /\ tempImage' # NoImage
    /\ images' = images

\* C23: in the first component every image that enters the crop modal is
\* resolved exactly once: an image enters only while the modal holds none;
\* confirmCrop appends the cropped image if a crop was completed and the
\* original otherwise, cancelCrop appends nothing, and both leave the modal
\* hidden with no image and no crop; and the modal is shown exactly while it
\* holds an image.
C23_CropModalResolvesEachImage ==
    [][ LET op == lastOp'.op
        IN  /\ EntersCropModal => tempImage = NoImage
            /\ op = "confirmCrop" =>
                  images' = Append(images,
                                   IF completedCrop # NoCrop
                                   THEN Cropped(tempImage, completedCrop)
                                   ELSE tempImage)
            /\ op = "cancelCrop" => images' = images
            /\ op \in {"confirmCrop", "cancelCrop"} =>
                  /\ ~showCropModal'
                  /\ tempImage' = NoImage
                  /\ completedCrop' = NoCrop
            /\ showCropModal' <=> tempImage' # NoImage
      ]_vars

\* C24: pasteFromClipboard is started only by a press of the upload area
\* that lasted 800 ms without a release: once a release (touchend, mouseup
\* or mouseleave) has occurred, no timer started before it fires.  The ref
\* holds no timer exactly from a release that cleared one until the next
\* press-start, so a timer that fires while the ref holds none was started
\* before a release that has occurred.
C24_NoTimerFiresAfterRelease ==
    [][ lastOp'.op = "longPressFired" => longPressTimer # NoTimer ]_vars

\* C25: in both components questionCount is an integer from 1 to 10 in every
\* state, whatever stepper buttons were pressed and whatever was typed into
\* the number input.
C25_QuestionCountInRange == questionCount \in 1..10

=============================================================================
